---- MODULE Spec2Model ----
(***************************************************************************)
(* Model of the daily simulation loop of the trend-surfer backtest engine  *)
(* (backend/app/backtest): BacktestEngine driving a Portfolio, a           *)
(* RiskManager and the TrendFollowingStrategy, with the TradeRepository    *)
(* as a sink whose calls can raise.                                        *)
(*                                                                         *)
(* Number representation.  Prices, ATR values, share counts and money are  *)
(* integers.  Percentages are basis points (0.01 = 100 bp).  The ATR       *)
(* trailing multiplier 2.5 is applied on doubled values, EMA slopes are    *)
(* tenths (-0.2 = -2), and r-multiples are integers in units of 1/RDen.    *)
(* Dates are the indices 1..NumDays of the trading-day sequence.           *)
(***************************************************************************)
EXTENDS Integers, Sequences, FiniteSets, TLC

\* ------------------------------------------------------------------ bounds
NumDays == 3
MaxRaise == 1
RMax == 3
MaxOps == 3
MaxLen == 4

\* --------------------------------------------------------- program constants
DEFAULT_RISK_PCT == 100
REDUCED_RISK_PCT == 50
MAX_PORTFOLIO_RISK == 400
CONSECUTIVE_LOSS_TRIGGER == 3
DRAWDOWN_TRIGGER == 7
REDUCED_TRADES_COUNT == 3
RECOVERY_R_THRESHOLD == 2
RECOVERY_WINS_THRESHOLD == 2
ATR_STOP_MULTIPLIER == 2
ATR_TRAILING_MULTIPLIER_X2 == 5
EMA_SLOPE_ENTRY_THRESHOLD == -2
EMA_SLOPE_EXIT_THRESHOLD == -3
ATR_OVERHEAT_THRESHOLD == 15
RE_ENTRY_COOLDOWN == 3
PYRAMID_MFE_THRESHOLD == 1
PYRAMID_MAX_TOTAL_RISK == 2
PYRAMID_RISK_PER_ADD_X2 == 1
KILL_SWITCH_WINDOW == 10
KILL_SWITCH_FAILS == 8
KILL_SWITCH_COOLDOWN == 20
DD_ENTRY_BLOCK == 15
SMA_ATR_TRAILING_MULTIPLIER == 3
EMA_ATR_TRAILING_MULTIPLIER == 3
RSI_EXIT_THRESHOLD == 70
MAX_HOLDING_DAYS == 10
BP == 100 * 100

\* ------------------------------------------------------------ input domains
\* A missing indicator is None, a missing candle NoCandle.  Truthy is Python's
\* truth test on an Optional[float]: neither None nor 0.
None == -1000
NoCandle == [present |-> FALSE]
Truthy(x) == x # None /\ x # 0

Candle(o, c, a, h10, h20, e50, sl) ==
    [present |-> TRUE, open |-> o, close |-> c, atr20 |-> a,
     high10 |-> h10, high20 |-> h20, ema50 |-> e50, ema50_slope |-> sl]

\* The SignalData frames a ticker can show on a day: a breakout on a wide ATR,
\* a breakout on a narrow ATR, a quiet day without indicators, a fall to the
\* stop on a collapsing EMA, and a close under a collapsing EMA above the stop.
Frames ==
    { NoCandle,
      Candle(12, 16, 2, 11, 11, 10, 1),
      Candle(12, 16, 1, 11, 11, 10, 1),
      Candle(12, 12, 1, None, None, None, None),
      Candle(12, 8, 2, 11, 11, 14, -5),
      Candle(12, 12, 2, 20, 20, 14, -5) }

\* The frames of the three-ticker sessions: the wide breakout, the quiet day
\* and the fall to the stop.
StopFrames ==
    { Candle(12, 16, 2, 11, 11, 10, 1),
      Candle(12, 12, 1, None, None, None, None),
      Candle(12, 8, 2, 11, 11, 14, -5) }

\* The frames of the tickers K and L: the wide breakout, the narrow breakout
\* and the fall to the stop.
LateFrames ==
    { Candle(12, 16, 2, 11, 11, 10, 1),
      Candle(12, 16, 1, 11, 11, 10, 1),
      Candle(12, 8, 2, 11, 11, 14, -5) }

\* run(tickers): the universe of the session, two or three tickers.
Universe == <<"A", "B">>
Universe3 == <<"A", "B", "C">>
UniverseLate == <<"K", "L">>

\* The rows the candle store holds for the tickers of a universe.
DayFrames(ts) ==
    IF ts = Universe3 THEN StopFrames
    ELSE IF ts = UniverseLate THEN LateFrames
    ELSE Frames

\* Engine configurations (initial_capital, risk_per_trade, max_portfolio_risk):
\* the constructor defaults scaled to a capital of 10000, and a configuration
\* with a 10% risk per trade under a 15% portfolio cap.
Configs ==
    { [initial_capital |-> 10000, risk_per_trade |-> DEFAULT_RISK_PCT,
       max_portfolio_risk |-> MAX_PORTFOLIO_RISK],
      [initial_capital |-> 10000, risk_per_trade |-> 1000,
       max_portfolio_risk |-> 1500] }

\* The configurations of the sessions on K and L: the defaults, and an 8%
\* risk per trade under a 16% portfolio cap.
LateConfigs ==
    { [initial_capital |-> 10000, risk_per_trade |-> DEFAULT_RISK_PCT,
       max_portfolio_risk |-> MAX_PORTFOLIO_RISK],
      [initial_capital |-> 10000, risk_per_trade |-> 800,
       max_portfolio_risk |-> 1600] }

\* ------------------------------------------------------------------ helpers
Min(a, b) == IF a <= b THEN a ELSE b
Max(a, b) == IF a >= b THEN a ELSE b

Range(s) == { s[k] : k \in DOMAIN s }

RemoveAt(s, k) == SubSeq(s, 1, k - 1) \o SubSeq(s, k + 1, Len(s))

\* Smallest common multiple of the per-share risk widths the frames allow:
\* every r-multiple is an integer multiple of 1/RDen.
Widths == { ATR_STOP_MULTIPLIER * f.atr20 : f \in { g \in Frames : g.present /\ Truthy(g.atr20) } }
RDen == CHOOSE n \in 1..64 : /\ \A w \in Widths : n % w = 0
                             /\ \A m \in 1..(n - 1) : \E w \in Widths : m % w # 0

\* ---------------------------------------------------------------- Portfolio
\* Position.cost
Cost(p) == p.entry_price * p.shares

RECURSIVE position_value(_)
position_value(ps) == IF ps = <<>> THEN 0 ELSE Cost(Head(ps)) + position_value(Tail(ps))

\* Portfolio.equity: cash plus the positions at their purchase cost.
equity(c, ps) == c + position_value(ps)

RECURSIVE total_risk(_)
total_risk(ps) == IF ps = <<>> THEN 0 ELSE Head(ps).risk_amount + total_risk(Tail(ps))

\* Portfolio.get_position: index of the first position with this key, 0 if none.
get_position(ps, t) ==
    IF \E k \in DOMAIN ps : ps[k].ticker = t
    THEN CHOOSE k \in DOMAIN ps : ps[k].ticker = t /\ \A j \in 1..(k - 1) : ps[j].ticker # t
    ELSE 0

has_position(ps, t) == get_position(ps, t) # 0

\* Portfolio.open_position raises ValueError when the cost exceeds the cash.
CanOpen(c, price, shares) == price * shares <= c

\* Portfolio.open_position: the cash left after the cost is debited.
CashAfterOpenUndebited(c, price, shares) == c

CashAfterOpen(c, price, shares) == c - price * shares

NewPositionRiskPerShare(t, d, price, shares, stop, atr) ==
    [ticker |-> t, entry_date |-> d, entry_price |-> price, shares |-> shares,
     initial_stop |-> stop, highest_close |-> price, atr_at_entry |-> atr,
     risk_amount |-> price - stop]

NewPosition(t, d, price, shares, stop, atr) ==
    [ticker |-> t, entry_date |-> d, entry_price |-> price, shares |-> shares,
     initial_stop |-> stop, highest_close |-> price, atr_at_entry |-> atr,
     risk_amount |-> (price - stop) * shares]

\* Portfolio.close_position on the position at index k: the Trade it produces
\* and the cash it credits.  r_multiple is in units of 1/RDen.
MakeTradePnlPerShare(p, d, price, reason) ==
    LET r_unit == p.entry_price - p.initial_stop IN
    [ticker |-> p.ticker, entry_date |-> p.entry_date, entry_price |-> p.entry_price,
     exit_date |-> d, exit_price |-> price, shares |-> p.shares, exit_reason |-> reason,
     pnl |-> price - p.entry_price,
     r_multiple |-> IF r_unit > 0 THEN ((price - p.entry_price) * RDen) \div r_unit ELSE 0]

MakeTrade(p, d, price, reason) ==
    LET r_unit == p.entry_price - p.initial_stop IN
    [ticker |-> p.ticker, entry_date |-> p.entry_date, entry_price |-> p.entry_price,
     exit_date |-> d, exit_price |-> price, shares |-> p.shares, exit_reason |-> reason,
     pnl |-> (price - p.entry_price) * p.shares,
     r_multiple |-> IF r_unit > 0 THEN ((price - p.entry_price) * RDen) \div r_unit ELSE 0]

CloseCreditAtEntry(p, price) == p.entry_price * p.shares

CloseCredit(p, price) == price * p.shares

\* Portfolio.record_daily: valuation at the day's price where the price map
\* has the position's key, at the entry price otherwise.
RECURSIVE MarkedValue(_, _)
MarkedValue(ps, pr) ==
    IF ps = <<>> THEN 0
    ELSE LET p == Head(ps) IN
         (IF p.ticker \in DOMAIN pr THEN pr[p.ticker] ELSE p.entry_price) * p.shares
           + MarkedValue(Tail(ps), pr)

MakeDailyRecord(d, c, ps, pr) ==
    [date |-> d, equity |-> c + MarkedValue(ps, pr), cash |-> c,
     position_count |-> Len(ps), total_risk |-> total_risk(ps)]

\* Portfolio.record_daily appends one record, whatever the price map holds.
record_daily_unless_empty(recs, d, c, ps, pr) ==
    IF DOMAIN pr = {} THEN recs ELSE Append(recs, MakeDailyRecord(d, c, ps, pr))

record_daily(recs, d, c, ps, pr) == Append(recs, MakeDailyRecord(d, c, ps, pr))

\* -------------------------------------------------------------- RiskManager
InitRiskState ==
    [consecutive_losses |-> 0, peak_equity |-> 0, is_reduced |-> FALSE,
     reduced_trades_remaining |-> 0, winning_exits_since_reduction |-> 0,
     r_gained_since_reduction |-> 0]

current_risk_pct(st, base) == IF st.is_reduced THEN REDUCED_RISK_PCT ELSE base

update_peak_equity_to_latest(st, eq) == [st EXCEPT !.peak_equity = eq]

update_peak_equity(st, eq) ==
    IF eq > st.peak_equity THEN [st EXCEPT !.peak_equity = eq] ELSE st

\* check_drawdown(eq) >= pct/100, without the division.
DrawdownAtLeast(st, eq, pct) ==
    IF st.peak_equity = 0 THEN 0 >= pct
    ELSE 100 * (st.peak_equity - eq) >= pct * st.peak_equity

can_take_risk(cur_risk, new_risk, eq, max_bp) ==
    (cur_risk + new_risk) * BP <= max_bp * eq

\* RiskManager.calculate_position_size
calculate_position_size_rounded_up(st, base, capital, entry_price, stop_loss) ==
    IF entry_price <= stop_loss THEN 0
    ELSE LET d == BP * (entry_price - stop_loss) IN
         Max(0, (capital * current_risk_pct(st, base) + d - 1) \div d)

calculate_position_size(st, base, capital, entry_price, stop_loss) ==
    IF entry_price <= stop_loss THEN 0
    ELSE Max(0, (capital * current_risk_pct(st, base)) \div (BP * (entry_price - stop_loss)))

_activate_reduction_keeping_counters(st) ==
    [st EXCEPT !.is_reduced = TRUE,
               !.reduced_trades_remaining = REDUCED_TRADES_COUNT]

_activate_reduction(st) ==
    [st EXCEPT !.is_reduced = TRUE,
               !.reduced_trades_remaining = REDUCED_TRADES_COUNT,
               !.winning_exits_since_reduction = 0,
               !.r_gained_since_reduction = 0]

_check_reduction_trigger_strict(st, eq) ==
    IF st.is_reduced THEN st
    ELSE IF st.consecutive_losses > CONSECUTIVE_LOSS_TRIGGER THEN _activate_reduction(st)
    ELSE IF DrawdownAtLeast(st, eq, DRAWDOWN_TRIGGER) THEN _activate_reduction(st)
    ELSE st

_check_reduction_trigger(st, eq) ==
    IF st.is_reduced THEN st
    ELSE IF st.consecutive_losses >= CONSECUTIVE_LOSS_TRIGGER THEN _activate_reduction(st)
    ELSE IF DrawdownAtLeast(st, eq, DRAWDOWN_TRIGGER) THEN _activate_reduction(st)
    ELSE st

_deactivate_reduction(st) ==
    [st EXCEPT !.is_reduced = FALSE, !.consecutive_losses = 0]

_check_recovery_without_budget(st) ==
    IF ~st.is_reduced THEN st
    ELSE IF st.r_gained_since_reduction >= RECOVERY_R_THRESHOLD * RDen THEN _deactivate_reduction(st)
    ELSE IF st.winning_exits_since_reduction >= RECOVERY_WINS_THRESHOLD THEN _deactivate_reduction(st)
    ELSE st

_check_recovery(st) ==
    IF ~st.is_reduced THEN st
    ELSE IF st.r_gained_since_reduction >= RECOVERY_R_THRESHOLD * RDen THEN _deactivate_reduction(st)
    ELSE IF st.winning_exits_since_reduction >= RECOVERY_WINS_THRESHOLD THEN _deactivate_reduction(st)
    ELSE IF st.reduced_trades_remaining <= 0 THEN _deactivate_reduction(st)
    ELSE st

\* RiskManager.on_trade_exit, up to the two checks: the counters.
on_trade_exit_counters(st, is_stop_loss, r_multiple) ==
    LET s1 == IF is_stop_loss
              THEN [st EXCEPT !.consecutive_losses = @ + 1,
                              !.r_gained_since_reduction =
                                  IF st.is_reduced THEN @ + r_multiple ELSE @]
              ELSE [st EXCEPT !.consecutive_losses = 0,
                              !.winning_exits_since_reduction =
                                  IF st.is_reduced THEN @ + 1 ELSE @,
                              !.r_gained_since_reduction =
                                  IF st.is_reduced THEN @ + r_multiple ELSE @]
    IN IF s1.is_reduced /\ s1.reduced_trades_remaining > 0
       THEN [s1 EXCEPT !.reduced_trades_remaining = @ - 1]
       ELSE s1

\* RiskManager.on_trade_exit
on_trade_exit(st, is_stop_loss, r_multiple, eq) ==
    _check_recovery(_check_reduction_trigger(
        on_trade_exit_counters(st, is_stop_loss, r_multiple), eq))

\* --------------------------------------------------- TrendFollowingStrategy
calculate_stop_loss(entry_price, atr) == entry_price - atr * ATR_STOP_MULTIPLIER

check_entry_signal(f) ==
    /\ Truthy(f.high20) /\ Truthy(f.atr20) /\ Truthy(f.ema50_slope)
    /\ f.close > f.high20
    /\ f.ema50_slope >= EMA_SLOPE_ENTRY_THRESHOLD
    /\ 100 * f.atr20 <= ATR_OVERHEAT_THRESHOLD * f.close

\* The exit reason, "" for None.
check_exit_signal(f, highest_close, initial_stop) ==
    IF f.close <= initial_stop THEN "STOP_LOSS"
    ELSE IF Truthy(f.atr20)
            /\ 2 * f.close < 2 * highest_close - f.atr20 * ATR_TRAILING_MULTIPLIER_X2
         THEN "TRAILING_STOP"
    ELSE IF Truthy(f.ema50) /\ f.close < f.ema50
            /\ Truthy(f.ema50_slope) /\ f.ema50_slope < EMA_SLOPE_EXIT_THRESHOLD
         THEN "EMA_STRUCTURE_EXIT"
    ELSE ""

\* check_pyramid_signal without the comparison of the two stop widths.
check_pyramid_signal_any_width(f, p, new_r_unit, tot_risk, eq, rpt) ==
    LET r_unit == p.entry_price - p.initial_stop IN
    /\ Truthy(f.high10) /\ Truthy(f.high20) /\ Truthy(f.atr20)
    /\ f.close - p.entry_price >= PYRAMID_MFE_THRESHOLD * r_unit
    /\ (f.close > f.high10 \/ f.close > f.high20)
    /\ ~(IF eq * rpt > 0 THEN tot_risk * BP >= PYRAMID_MAX_TOTAL_RISK * eq * rpt
                         ELSE 0 >= PYRAMID_MAX_TOTAL_RISK)

\* check_pyramid_signal; the open risk in R is total_risk / (eq * rpt / BP).
check_pyramid_signal(f, p, new_r_unit, tot_risk, eq, rpt) ==
    LET r_unit == p.entry_price - p.initial_stop IN
    /\ Truthy(f.high10) /\ Truthy(f.high20) /\ Truthy(f.atr20)
    /\ f.close - p.entry_price >= PYRAMID_MFE_THRESHOLD * r_unit
    /\ new_r_unit < r_unit
    /\ (f.close > f.high10 \/ f.close > f.high20)
    /\ ~(IF eq * rpt > 0 THEN tot_risk * BP >= PYRAMID_MAX_TOTAL_RISK * eq * rpt
                         ELSE 0 >= PYRAMID_MAX_TOTAL_RISK)

\* calculate_pyramid_size: risk = one_r * min(0.5, 2 - open risk in R).
calculate_pyramid_size(eq, rpt, entry_price, stop_loss, tot_risk) ==
    IF entry_price <= stop_loss THEN 0
    ELSE LET open_x == IF eq * rpt > 0 THEN tot_risk * BP ELSE 0
             \* 2 * BP * (one_r * pyramid_risk_r)
             amount_x == Min(PYRAMID_RISK_PER_ADD_X2 * eq * rpt,
                             2 * (PYRAMID_MAX_TOTAL_RISK * eq * rpt - open_x))
         IN IF amount_x <= 0 THEN 0
            ELSE Max(0, amount_x \div (2 * BP * (entry_price - stop_loss)))

\* ----------------------------------------------------------- BacktestEngine
VARIABLES
    cfg,                \* initial_capital, risk_per_trade, max_portfolio_risk
    save_to_db,
    tickers,            \* run(tickers)
    pc, day, i,         \* position in run / _process_day, current date, loop index
    frame,              \* data_cache[.][date] for the current date
    is_market_ok,
    prices,             \* the local price map of _process_day
    cash, positions, trades, daily_records,
    state,              \* RiskManager.state
    pending_entries, stopped_out_today, last_exit_info,
    recent_trade_results, kill_switch_active, kill_switch_activated_date,
    positions_to_close, \* the local list of _process_exits
    session_id, sink,   \* TradeRepository: session and backtest_trades rows
    raised,             \* number of exceptions raised so far
    close_prices, period, period_high, \* calculate_period_high: arguments, result
    sma                 \* calculate_sma(close_prices, period), times the period

vars == <<cfg, save_to_db, tickers, pc, day, i, frame, is_market_ok, prices,
          cash, positions, trades, daily_records, state,
          pending_entries, stopped_out_today, last_exit_info,
          recent_trade_results, kill_switch_active, kill_switch_activated_date,
          positions_to_close, session_id, sink, raised,
          close_prices, period, period_high, sma>>

portfolioVars == <<cash, positions, trades, daily_records>>
killVars == <<recent_trade_results, kill_switch_active, kill_switch_activated_date>>
kernelVars == <<close_prices, period, period_high, sma>>
runVars == <<cfg, save_to_db, tickers, kernelVars>>

\* No indicator is being computed.
KernelIdle == close_prices = <<>> /\ period = 0 /\ period_high = <<>> /\ sma = <<>>

NoFrame == [t \in {} |-> NoCandle]
EmptyMap == [t \in {} |-> 0]

\* data_cache.get(ticker, {}).get(date)
Data(t) == IF t \in DOMAIN frame THEN frame[t] ELSE NoCandle

\* The key of a pyramid add-on: f"{ticker}_P".
PyramidKey(t) == t \o "_P"

\* A database call can raise while fewer than MaxRaise exceptions were raised.
CanRaise == raised < MaxRaise

\* The except branch of _process_day: the rest of the try block is skipped
\* and prices stays empty.
Caught ==
    /\ pc' = "record"
    /\ prices' = EmptyMap
    /\ raised' = raised + 1

\* BacktestEngine.__init__, and the tickers run is called with.
InitEngine(ts) ==
    /\ cfg \in Configs
    /\ save_to_db = TRUE
    /\ tickers = ts
    /\ pc = "start" /\ day = 0 /\ i = 0
    /\ frame = NoFrame
    /\ is_market_ok = FALSE
    /\ prices = EmptyMap
    /\ cash = cfg.initial_capital
    /\ positions = <<>> /\ trades = <<>> /\ daily_records = <<>>
    /\ state = update_peak_equity(InitRiskState, cfg.initial_capital)
    /\ pending_entries = <<>>
    /\ stopped_out_today = {}
    /\ last_exit_info = EmptyMap
    /\ recent_trade_results = <<>>
    /\ kill_switch_active = FALSE
    /\ kill_switch_activated_date = None
    /\ positions_to_close = <<>>
    /\ session_id = None
    /\ sink = <<>>
    /\ raised = 0
    /\ KernelIdle

Init == InitEngine(Universe)
Init3 == InitEngine(Universe3)

\* run, up to the day loop: create_session, _get_trading_days, _preload_data.
\* A failing create_session propagates out of run.
RunStart ==
    /\ pc = "start"
    /\ \E ok \in BOOLEAN :
         /\ (~ok) => (save_to_db /\ CanRaise)
         /\ IF ok
            THEN /\ session_id' = IF save_to_db THEN 1 ELSE None
                 /\ pc' = IF NumDays >= 1 THEN "day" ELSE "result"
                 /\ day' = 1
                 /\ raised' = raised
            ELSE /\ pc' = "aborted"
                 /\ raised' = raised + 1
                 /\ UNCHANGED <<session_id, day>>
    /\ UNCHANGED <<runVars, i, frame, is_market_ok, prices, portfolioVars, state,
                   pending_entries, stopped_out_today, last_exit_info, killVars,
                   positions_to_close, sink>>

\* _process_day steps 1 and 2: clear stopped_out_today, read the market
\* filter (a database read that can raise).  The day's rows of data_cache
\* come into view.
DayStart ==
    /\ pc = "day"
    /\ stopped_out_today' = {}
    /\ frame' \in [Range(tickers) -> DayFrames(tickers)]
    /\ \E ok \in BOOLEAN :
         /\ (~ok) => CanRaise
         /\ IF ok
            THEN /\ is_market_ok' \in BOOLEAN
                 /\ pc' = "pending"
                 /\ prices' = EmptyMap
                 /\ raised' = raised
            ELSE /\ Caught
                 /\ UNCHANGED is_market_ok
    /\ i' = 1
    /\ UNCHANGED <<runVars, day, portfolioVars, state, pending_entries,
                   last_exit_info, killVars, positions_to_close, session_id, sink>>

\* _process_pending_entries, one pending entry: what the code decides before
\* open_position.  kind is "skip" (the entry is only marked processed) or
\* "open" with the price, stop and share count passed to open_position.
PendingDecision(pe) ==
    LET f == Data(pe.ticker)
        skip == [kind |-> "skip", price |-> 0, stop |-> 0, shares |-> 0]
    IN
    IF ~f.present THEN skip
    ELSE IF ~is_market_ok THEN skip
    ELSE IF has_position(positions, pe.ticker) THEN skip
    ELSE
      LET entry_price == f.open
          stop_loss == calculate_stop_loss(entry_price, pe.atr)
          eq == equity(cash, positions)
          shares == calculate_position_size(state, cfg.risk_per_trade, eq,
                                            entry_price, stop_loss)
          new_risk == (entry_price - stop_loss) * shares
          clamped == IF entry_price * shares > cash THEN cash \div entry_price
                                                    ELSE shares
      IN
      IF shares <= 0 THEN skip
      ELSE IF ~can_take_risk(total_risk(positions), new_risk, eq,
                             cfg.max_portfolio_risk) THEN skip
      ELSE IF clamped <= 0 THEN skip
      ELSE [kind |-> "open", price |-> entry_price, stop |-> stop_loss,
            shares |-> clamped]

BuyRow(t, d, price, shares) ==
    [trade_type |-> "BUY", ticker |-> t, trade_date |-> d, price |-> price,
     shares |-> shares]

SellRow(tr) ==
    [trade_type |-> "SELL", ticker |-> tr.ticker, trade_date |-> tr.exit_date,
     price |-> tr.exit_price, shares |-> tr.shares]

\* _process_day: step 4 follows step 3.
AfterPendingSkipsExits == "entries"

AfterPending == "exits"

\* _process_pending_entries: one iteration of the loop over pending_entries,
\* and, after the last one, the removal of the processed entries.  A raise of
\* record_buy leaves the loop after open_position, before anything is removed.
ProcessPending ==
    /\ pc = "pending"
    /\ IF i > Len(pending_entries)
       THEN /\ pending_entries' = <<>>
            /\ pc' = AfterPending
            /\ i' = 1
            /\ UNCHANGED <<cash, positions, sink, raised, prices>>
       ELSE LET pe == pending_entries[i]
                dec == PendingDecision(pe)
            IN
            IF dec.kind = "skip" \/ ~CanOpen(cash, dec.price, dec.shares)
            THEN /\ i' = i + 1
                 /\ UNCHANGED <<pc, cash, positions, pending_entries, sink, raised, prices>>
            ELSE /\ positions' = Append(positions,
                        NewPosition(pe.ticker, day, dec.price, dec.shares, dec.stop, pe.atr))
                 /\ cash' = CashAfterOpen(cash, dec.price, dec.shares)
                 /\ UNCHANGED pending_entries
                 /\ \E ok \in BOOLEAN :
                      /\ (~ok) => (save_to_db /\ CanRaise)
                      /\ IF ok
                         THEN /\ sink' = IF save_to_db
                                         THEN Append(sink, BuyRow(pe.ticker, day, dec.price, dec.shares))
                                         ELSE sink
                              /\ i' = i + 1
                              /\ UNCHANGED <<pc, raised, prices>>
                         ELSE /\ Caught
                              /\ UNCHANGED <<sink, i>>
    /\ UNCHANGED <<runVars, day, frame, is_market_ok, trades, daily_records, state,
                   stopped_out_today, last_exit_info, killVars, positions_to_close,
                   session_id>>

\* _process_exits, first loop, one position: update highest_close (and the
\* sink, which can raise), evaluate check_exit_signal, collect the closes.
ScanExits ==
    /\ pc = "exits"
    /\ IF i > Len(positions)
       THEN /\ pc' = "close"
            /\ i' = 1
            /\ UNCHANGED <<positions, positions_to_close, raised, prices>>
       ELSE LET p == positions[i]
                f == Data(p.ticker)
            IN
            IF ~f.present
            THEN /\ i' = i + 1
                 /\ UNCHANGED <<pc, positions, positions_to_close, raised, prices>>
            ELSE LET higher == f.close > p.highest_close
                     hc == IF higher THEN f.close ELSE p.highest_close
                     exit_reason == check_exit_signal(f, hc, p.initial_stop)
                 IN
                 /\ positions' = [positions EXCEPT ![i].highest_close = hc]
                 /\ \E ok \in BOOLEAN :
                      /\ (~ok) => (higher /\ save_to_db /\ CanRaise)
                      /\ IF ok
                         THEN /\ positions_to_close' =
                                   IF exit_reason # ""
                                   THEN Append(positions_to_close,
                                          [ticker |-> p.ticker, price |-> f.close,
                                           reason |-> exit_reason])
                                   ELSE positions_to_close
                              /\ i' = i + 1
                              /\ UNCHANGED <<pc, raised, prices>>
                         ELSE /\ Caught
                              /\ UNCHANGED <<positions_to_close, i>>
    /\ UNCHANGED <<runVars, day, frame, is_market_ok, cash, trades, daily_records,
                   state, pending_entries, stopped_out_today, last_exit_info,
                   killVars, session_id, sink>>

\* The kill-switch window after one more result: append, keep the last 10.
PushResultUnbounded(w, is_win) == Append(w, is_win)

PushResult(w, is_win) ==
    LET a == Append(w, is_win) IN
    IF Len(a) > KILL_SWITCH_WINDOW THEN Tail(a) ELSE a

FailCount(w) == Cardinality({ k \in DOMAIN w : ~w[k] })

KillSwitchTrips(w) == Len(w) >= KILL_SWITCH_WINDOW /\ FailCount(w) >= KILL_SWITCH_FAILS

SetExitInfo(info, t, d, reason, price) ==
    [k \in DOMAIN info \cup {t} |->
        IF k = t THEN [exit_date |-> d, exit_reason |-> reason, exit_price |-> price]
        ELSE info[k]]

\* _process_exits, second loop, one element of positions_to_close:
\* close_position, record_sell (which can raise), then stopped_out_today,
\* last_exit_info, the kill-switch window and the RiskManager.
ClosePositions ==
    /\ pc = "close"
    /\ IF i > Len(positions_to_close)
       THEN /\ pc' = IF is_market_ok THEN "entries" ELSE "prices"
            /\ i' = 1
            /\ positions_to_close' = <<>>
            /\ UNCHANGED <<cash, positions, trades, state, stopped_out_today,
                           last_exit_info, killVars, sink, raised, prices>>
       ELSE LET c == positions_to_close[i]
                k == get_position(positions, c.ticker)
                found == k # 0
                trade == MakeTrade(positions[k], day, c.price, c.reason)
                cash1 == IF found THEN cash + CloseCredit(positions[k], c.price) ELSE cash
                pos1 == IF found THEN RemoveAt(positions, k) ELSE positions
                is_win == IF found THEN trade.pnl > 0 ELSE FALSE
                w1 == PushResult(recent_trade_results, is_win)
                trips == KillSwitchTrips(w1) /\ ~kill_switch_active
            IN
            /\ cash' = cash1
            /\ positions' = pos1
            /\ trades' = IF found THEN Append(trades, trade) ELSE trades
            /\ UNCHANGED positions_to_close
            /\ \E ok \in BOOLEAN :
                 /\ (~ok) => (found /\ save_to_db /\ CanRaise)
                 /\ IF ok
                    THEN /\ sink' = IF found /\ save_to_db
                                    THEN Append(sink, SellRow(trade)) ELSE sink
                         /\ stopped_out_today' =
                              IF c.reason = "STOP_LOSS"
                              THEN stopped_out_today \cup {c.ticker}
                              ELSE stopped_out_today
                         /\ last_exit_info' =
                              SetExitInfo(last_exit_info, c.ticker, day, c.reason, c.price)
                         /\ recent_trade_results' = w1
                         /\ kill_switch_active' = (kill_switch_active \/ trips)
                         /\ kill_switch_activated_date' =
                              IF trips THEN day ELSE kill_switch_activated_date
                         /\ state' = IF found
                                     THEN on_trade_exit(state, c.reason = "STOP_LOSS",
                                                        trade.r_multiple, equity(cash1, pos1))
                                     ELSE state
                         /\ i' = i + 1
                         /\ UNCHANGED <<pc, raised, prices>>
                    ELSE /\ Caught
                         /\ UNCHANGED <<sink, stopped_out_today, last_exit_info,
                                        killVars, state, i>>
    /\ UNCHANGED <<runVars, day, frame, is_market_ok, daily_records,
                   pending_entries, session_id>>

\* _count_trading_days(start, end): the trading days in (start, end].
_count_trading_days(start_date, end_date) == Max(0, end_date - start_date)

\* _scan_entry_signals up to the ticker loop: release of the kill-switch
\* after the cooldown (a database read that can raise), the kill-switch
\* gate and the drawdown gate.
EntryGates ==
    /\ pc = "entries"
    /\ LET counting == kill_switch_active /\ kill_switch_activated_date # None
           release == counting /\ _count_trading_days(kill_switch_activated_date, day)
                                    >= KILL_SWITCH_COOLDOWN
           active1 == kill_switch_active /\ ~release
       IN \E ok \in BOOLEAN :
            /\ (~ok) => (counting /\ CanRaise)
            /\ IF ok
               THEN /\ kill_switch_active' = active1
                    /\ kill_switch_activated_date' =
                         IF release THEN None ELSE kill_switch_activated_date
                    /\ recent_trade_results' =
                         IF release THEN <<>> ELSE recent_trade_results
                    /\ pc' = IF active1 THEN "pyramid"
                             ELSE IF DrawdownAtLeast(state, equity(cash, positions), DD_ENTRY_BLOCK)
                                  THEN "pyramid"
                             ELSE "scan"
                    /\ UNCHANGED <<raised, prices>>
               ELSE /\ Caught
                    /\ UNCHANGED killVars
    /\ i' = 1
    /\ UNCHANGED <<runVars, day, frame, is_market_ok, portfolioVars, state,
                   pending_entries, stopped_out_today, last_exit_info,
                   positions_to_close, session_id, sink>>

\* _check_reentry_allowed, given the count of trading days since the exit.
_check_reentry_allowed(t) ==
    IF t \notin DOMAIN last_exit_info THEN TRUE
    ELSE IF last_exit_info[t].exit_reason # "TRAILING_STOP" THEN FALSE
    ELSE _count_trading_days(last_exit_info[t].exit_date, day) >= RE_ENTRY_COOLDOWN

\* The tickers _scan_entry_signals looks at before it reads the trading-day
\* count for the re-entry rule.
ReachesReentryCount(t) ==
    /\ ~has_position(positions, t)
    /\ \A k \in DOMAIN pending_entries : pending_entries[k].ticker # t
    /\ t \notin stopped_out_today
    /\ t \in DOMAIN last_exit_info
    /\ last_exit_info[t].exit_reason = "TRAILING_STOP"

\* The condition under which _scan_entry_signals enqueues ticker t.
EntryAdmitted(t) ==
    /\ ~has_position(positions, t)
    /\ \A k \in DOMAIN pending_entries : pending_entries[k].ticker # t
    /\ t \notin stopped_out_today
    /\ _check_reentry_allowed(t)
    /\ Data(t).present /\ Truthy(Data(t).atr20)
    /\ check_entry_signal(Data(t))

\* _scan_entry_signals, one ticker of the loop.
ScanEntries ==
    /\ pc = "scan"
    /\ IF i > Len(tickers)
       THEN /\ pc' = "pyramid"
            /\ i' = 1
            /\ UNCHANGED <<pending_entries, raised, prices>>
       ELSE LET t == tickers[i] IN
            \E ok \in BOOLEAN :
              /\ (~ok) => (ReachesReentryCount(t) /\ CanRaise)
              /\ IF ok
                 THEN /\ pending_entries' =
                           IF EntryAdmitted(t)
                           THEN Append(pending_entries,
                                  [ticker |-> t, signal_date |-> day,
                                   signal_close |-> Data(t).close, atr |-> Data(t).atr20])
                           ELSE pending_entries
                      /\ i' = i + 1
                      /\ UNCHANGED <<pc, raised, prices>>
                 ELSE /\ Caught
                      /\ UNCHANGED <<pending_entries, i>>
    /\ UNCHANGED <<runVars, day, frame, is_market_ok, portfolioVars, state,
                   stopped_out_today, last_exit_info, killVars, positions_to_close,
                   session_id, sink>>

\* _scan_pyramid_signals, one position of the loop: what is passed to
\* open_position, shares 0 when nothing is opened.  The loop runs over the
\* live list, so it also visits the add-ons it has appended.
PyramidDecision(p) ==
    LET f == Data(p.ticker)
        none == [shares |-> 0, price |-> 0, stop |-> 0, atr |-> 0]
    IN
    IF ~f.present \/ ~Truthy(f.atr20) THEN none
    ELSE IF p.entry_price - p.initial_stop <= 0 THEN none
    ELSE
      LET new_stop == calculate_stop_loss(f.close, f.atr20)
          new_r_unit == f.close - new_stop
          eq == equity(cash, positions)
          tr == total_risk(positions)
          shares == calculate_pyramid_size(eq, cfg.risk_per_trade, f.close, new_stop, tr)
          clamped == IF f.close * shares > cash THEN cash \div f.close ELSE shares
      IN
      IF ~check_pyramid_signal(f, p, new_r_unit, tr, eq, cfg.risk_per_trade) THEN none
      ELSE IF shares <= 0 \/ clamped <= 0 THEN none
      ELSE [shares |-> clamped, price |-> f.close, stop |-> new_stop, atr |-> f.atr20]

ScanPyramid ==
    /\ pc = "pyramid"
    /\ IF i > Len(positions)
       THEN /\ pc' = "prices"
            /\ i' = 1
            /\ UNCHANGED <<cash, positions>>
       ELSE LET p == positions[i]
                dec == PyramidDecision(p)
            IN
            /\ i' = i + 1
            /\ pc' = pc
            /\ IF dec.shares > 0 /\ CanOpen(cash, dec.price, dec.shares)
               THEN /\ positions' = Append(positions,
                          NewPosition(PyramidKey(p.ticker), day, dec.price, dec.shares,
                                      dec.stop, dec.atr))
                    /\ cash' = CashAfterOpen(cash, dec.price, dec.shares)
               ELSE UNCHANGED <<cash, positions>>
    /\ UNCHANGED <<runVars, day, frame, is_market_ok, prices, trades, daily_records,
                   state, pending_entries, stopped_out_today, last_exit_info,
                   killVars, positions_to_close, session_id, sink, raised>>

\* _process_day, end of the try block: the closes of the day by ticker.
CollectPrices ==
    /\ pc = "prices"
    /\ prices' = [t \in { u \in Range(tickers) : Data(u).present } |-> Data(t).close]
    /\ pc' = "record"
    /\ UNCHANGED <<runVars, day, i, frame, is_market_ok, portfolioVars, state,
                   pending_entries, stopped_out_today, last_exit_info, killVars,
                   positions_to_close, session_id, sink, raised>>

\* _process_day after the try block: record_daily and update_peak_equity;
\* then the next day of the loop, or the end of the loop.
RecordDaily ==
    /\ pc = "record"
    /\ daily_records' = record_daily(daily_records, day, cash, positions, prices)
    /\ state' = update_peak_equity(state, equity(cash, positions))
    /\ prices' = EmptyMap
    /\ positions_to_close' = <<>>
    /\ i' = 1
    /\ IF day < NumDays
       THEN /\ day' = day + 1
            /\ pc' = "day"
            /\ frame' = NoFrame
       ELSE /\ pc' = "force"
            /\ UNCHANGED <<day, frame>>
    /\ UNCHANGED <<runVars, is_market_ok, cash, positions, trades,
                   pending_entries, stopped_out_today, last_exit_info, killVars,
                   session_id, sink, raised>>

\* _close_all_positions makes no call to the RiskManager: the RiskState after
\* a forced exit is the one before it.
RiskStateAfterForcedExitNotified(st, trade, eq) ==
    on_trade_exit(st, FALSE, trade.r_multiple, eq)

RiskStateAfterForcedExit(st, trade, eq) == st

\* _close_all_positions, one position of the copied list (always the first
\* one still open): closed at the close stored under its key on the last
\* day, at its highest_close when there is none.  A raise of record_sell
\* propagates out of run.
ForceClose ==
    /\ pc = "force"
    /\ IF positions = <<>>
       THEN /\ pc' = "result"
            /\ UNCHANGED <<cash, positions, trades, sink, raised, state>>
       ELSE LET p == Head(positions)
                price == IF Data(p.ticker).present THEN Data(p.ticker).close
                                                   ELSE p.highest_close
                trade == MakeTrade(p, day, price, "FORCE_EXIT")
            IN
            /\ cash' = cash + CloseCredit(p, price)
            /\ positions' = Tail(positions)
            /\ trades' = Append(trades, trade)
            /\ state' = RiskStateAfterForcedExit(state, trade,
                                                 equity(cash', positions'))
            /\ \E ok \in BOOLEAN :
                 /\ (~ok) => (save_to_db /\ CanRaise)
                 /\ IF ok
                    THEN /\ sink' = IF save_to_db THEN Append(sink, SellRow(trade)) ELSE sink
                         /\ UNCHANGED <<pc, raised>>
                    ELSE /\ pc' = "aborted"
                         /\ raised' = raised + 1
                         /\ UNCHANGED sink
    /\ UNCHANGED <<runVars, day, i, frame, is_market_ok, prices, daily_records,
                   pending_entries, stopped_out_today, last_exit_info, killVars,
                   positions_to_close, session_id>>

\* _generate_result: the result reads the portfolio and the risk state.
GenerateResult ==
    /\ pc = "result"
    /\ pc' = "done"
    /\ UNCHANGED <<runVars, day, i, frame, is_market_ok, prices, portfolioVars, state,
                   pending_entries, stopped_out_today, last_exit_info, killVars,
                   positions_to_close, session_id, sink, raised>>

Next ==
    \/ RunStart
    \/ DayStart
    \/ ProcessPending
    \/ ScanExits
    \/ ClosePositions
    \/ EntryGates
    \/ ScanEntries
    \/ ScanPyramid
    \/ CollectPrices
    \/ RecordDaily
    \/ ForceClose
    \/ GenerateResult

Spec == Init /\ [][Next]_vars
Spec3 == Init3 /\ [][Next]_vars

\* --------------------------------------------- a session late in its range
\* The engine at the start of a trading day late in a session on K and L:
\* the days modelled are 1..NumDays, the earlier days of the session have
\* the indices below 1.  So far the session has closed one trade every
\* fourth day, alternately on L and K, each entered at 12 under a stop of 8
\* and left on the trailing stop, at 16 when it won and at 12 (pnl 0, a
\* loss for the kill-switch window) when it lost; no position is open.
\* daily_records and the sink, which the engine only writes, hold what is
\* written from day 1 on.
Rep(b, n) == [k \in 1..n |-> b]

\* Windows the kill-switch has not tripped on, and the full window of losses
\* of a kill-switch that tripped.
LateWindows ==
    { Rep(TRUE, 2) \o Rep(FALSE, 7),
      Rep(TRUE, 1) \o Rep(FALSE, 8),
      Rep(FALSE, 8),
      Rep(TRUE, 3) \o Rep(FALSE, 7),
      Rep(FALSE, 1) \o Rep(TRUE, 3) \o Rep(FALSE, 6) }

TrippedWindow == Rep(FALSE, KILL_SWITCH_WINDOW)

\* The trades k..Len(w) behind the window w, the last one closed on day
\* last, sized by the RiskManager on the equity c at their entry.
RECURSIVE LateTrades(_, _, _, _, _)
LateTrades(w, last, base, c, k) ==
    IF k > Len(w) THEN <<>>
    ELSE LET x == last - 4 * (Len(w) - k)
             t == IF (Len(w) - k) % 2 = 0 THEN "K" ELSE "L"
             sh == calculate_position_size(InitRiskState, base, c, 12, 8)
             p == NewPosition(t, x - 2, 12, sh, 8, 2)
             tr == MakeTrade(p, x, IF w[k] THEN 16 ELSE 12, "TRAILING_STOP")
         IN <<tr>> \o LateTrades(w, last, base, c + tr.pnl, k + 1)

RECURSIVE SumPnl(_)
SumPnl(ts) == IF ts = <<>> THEN 0 ELSE Head(ts).pnl + SumPnl(Tail(ts))

LateExitInfo(ts) ==
    [t \in { ts[k].ticker : k \in DOMAIN ts } |->
        LET k == CHOOSE j \in DOMAIN ts :
                   ts[j].ticker = t /\ \A m \in (j + 1)..Len(ts) : ts[m].ticker # t
        IN [exit_date |-> ts[k].exit_date, exit_reason |-> ts[k].exit_reason,
            exit_price |-> ts[k].exit_price]]

\* The kill-switch is either untripped, the last trade closed on day -1, or
\* it tripped on the last trade, 20 trading days before one of the days
\* modelled.
InitLate ==
    /\ cfg \in LateConfigs
    /\ save_to_db = TRUE
    /\ tickers = UniverseLate
    /\ pc = "day" /\ day = 1 /\ i = 1
    /\ frame = NoFrame
    /\ is_market_ok = TRUE
    /\ prices = EmptyMap
    /\ \/ /\ recent_trade_results \in LateWindows
          /\ kill_switch_active = FALSE
          /\ kill_switch_activated_date = None
          /\ trades = LateTrades(recent_trade_results, -1, cfg.risk_per_trade,
                                 cfg.initial_capital, 1)
       \/ /\ recent_trade_results = TrippedWindow
          /\ kill_switch_active = TRUE
          /\ kill_switch_activated_date \in
               { d - KILL_SWITCH_COOLDOWN : d \in 1..NumDays }
          /\ trades = LateTrades(recent_trade_results, kill_switch_activated_date,
                                 cfg.risk_per_trade, cfg.initial_capital, 1)
    /\ cash = cfg.initial_capital + SumPnl(trades)
    /\ positions = <<>> /\ daily_records = <<>>
    /\ state = update_peak_equity(InitRiskState, cash)
    /\ pending_entries = <<>>
    /\ stopped_out_today = {}
    /\ last_exit_info = LateExitInfo(trades)
    /\ positions_to_close = <<>>
    /\ session_id = 1
    /\ sink = <<>>
    /\ raised = 0
    /\ KernelIdle

NextLate ==
    \/ DayStart
    \/ ProcessPending
    \/ ScanExits
    \/ ClosePositions
    \/ EntryGates
    \/ ScanEntries
    \/ ScanPyramid
    \/ CollectPrices
    \/ RecordDaily
    \/ ForceClose
    \/ GenerateResult

SpecLate == InitLate /\ [][NextLate]_vars

\* Portfolio.get_stats: total_pnl, and total_return_pct in basis points.
get_stats(ts, initial_capital) ==
    IF ts = <<>> THEN [total_pnl |-> 0, total_return_pct |-> 0]
    ELSE [total_pnl |-> SumPnl(ts),
          total_return_pct |-> (SumPnl(ts) * BP) \div initial_capital]

\* _generate_result: the result dictionary, read from the portfolio.
result ==
    [initial_capital |-> cfg.initial_capital,
     final_equity |-> equity(cash, positions),
     stats |-> get_stats(trades, cfg.initial_capital),
     trades |-> trades,
     daily_records |-> daily_records]


\* ------------------------------------------------- the RiskManager by itself
\* A RiskManager under any caller: on_trade_exit and update_peak_equity are
\* called with any exit kind, any r-multiple within RMax R and any of a few
\* equities around the 7% drawdown of a peak of 10000.
RMultiples == (0 - RMax * RDen)..(RMax * RDen)
RiskEquities == {9000, 9300, 9400, 10000, 10500}

RiskInit ==
    /\ cfg \in { c \in Configs : c.risk_per_trade = DEFAULT_RISK_PCT }
    /\ save_to_db = FALSE
    /\ tickers = Universe
    /\ pc = "risk" /\ day = 0 /\ i = 0
    /\ frame = NoFrame
    /\ is_market_ok = FALSE
    /\ prices = EmptyMap
    /\ cash = cfg.initial_capital
    /\ positions = <<>> /\ trades = <<>> /\ daily_records = <<>>
    /\ state = update_peak_equity(InitRiskState, cfg.initial_capital)
    /\ pending_entries = <<>>
    /\ stopped_out_today = {}
    /\ last_exit_info = EmptyMap
    /\ recent_trade_results = <<>>
    /\ kill_switch_active = FALSE
    /\ kill_switch_activated_date = None
    /\ positions_to_close = <<>>
    /\ session_id = None
    /\ sink = <<>>
    /\ raised = 0
    /\ KernelIdle

engineVars == <<runVars, pc, day, i, frame, is_market_ok, prices, portfolioVars,
                pending_entries, stopped_out_today, last_exit_info, killVars,
                positions_to_close, session_id, sink, raised>>

RiskExit ==
    /\ pc = "risk"
    /\ \E sl \in BOOLEAN, r \in RMultiples, eq \in RiskEquities :
         state' = on_trade_exit(state, sl, r, eq)
    /\ UNCHANGED engineVars

RiskPeak ==
    /\ pc = "risk"
    /\ \E eq \in RiskEquities : state' = update_peak_equity(state, eq)
    /\ UNCHANGED engineVars

RiskNext == RiskExit \/ RiskPeak

RiskSpec == RiskInit /\ [][RiskNext]_vars

\* --------------------------------------------------- the Portfolio by itself
\* A Portfolio under any caller: up to MaxOps calls of open_position and
\* close_position with any arguments from small sets, among them a cost above
\* the cash, a stop at or above the price and a ticker that is not held.
\* The arguments of the call in progress are in pending_entries
\* (open_position) or positions_to_close (close_position); raised counts the
\* ValueErrors raised to the caller.
OpenArgs ==
    [ticker : {"A", "B"}, price : {8, 12}, shares : {2, 1000},
     stop_loss : {6, 12}, atr : {2}]

CloseArgs == [ticker : {"A", "B"}, price : {8, 16}, reason : {"STOP_LOSS"}]

PortfolioInit ==
    /\ cfg \in { c \in Configs : c.risk_per_trade = DEFAULT_RISK_PCT }
    /\ save_to_db = FALSE
    /\ tickers = Universe
    /\ pc = "portfolio" /\ day = 1 /\ i = 0
    /\ frame = NoFrame
    /\ is_market_ok = FALSE
    /\ prices = EmptyMap
    /\ cash = cfg.initial_capital
    /\ positions = <<>> /\ trades = <<>> /\ daily_records = <<>>
    /\ state = update_peak_equity(InitRiskState, cfg.initial_capital)
    /\ pending_entries = <<>>
    /\ stopped_out_today = {}
    /\ last_exit_info = EmptyMap
    /\ recent_trade_results = <<>>
    /\ kill_switch_active = FALSE
    /\ kill_switch_activated_date = None
    /\ positions_to_close = <<>>
    /\ session_id = None
    /\ sink = <<>>
    /\ raised = 0
    /\ KernelIdle

callerVars == <<runVars, day, frame, is_market_ok, prices, daily_records, state,
                stopped_out_today, last_exit_info, killVars, session_id, sink>>

\* The caller makes its next call.
PortfolioCall ==
    /\ pc = "portfolio"
    /\ i < MaxOps
    /\ i' = i + 1
    /\ \/ /\ pending_entries' \in { <<a>> : a \in OpenArgs }
          /\ pc' = "open_position"
          /\ UNCHANGED positions_to_close
       \/ /\ positions_to_close' \in { <<a>> : a \in CloseArgs }
          /\ pc' = "close_position"
          /\ UNCHANGED pending_entries
    /\ UNCHANGED <<callerVars, cash, positions, trades, raised>>

\* Portfolio.open_position: ValueError when the cost exceeds the cash,
\* otherwise the position is appended and the cost debited.
open_position ==
    /\ pc = "open_position"
    /\ LET a == pending_entries[1] IN
       IF ~CanOpen(cash, a.price, a.shares)
       THEN /\ raised' = raised + 1
            /\ UNCHANGED <<cash, positions>>
       ELSE /\ positions' = Append(positions,
                   NewPosition(a.ticker, day, a.price, a.shares, a.stop_loss, a.atr))
            /\ cash' = CashAfterOpen(cash, a.price, a.shares)
            /\ UNCHANGED raised
    /\ pending_entries' = <<>>
    /\ pc' = "portfolio"
    /\ UNCHANGED <<callerVars, i, trades, positions_to_close>>

\* Portfolio.close_position: None when the ticker is not held, otherwise the
\* Trade is appended, the position removed and the proceeds credited.
close_position ==
    /\ pc = "close_position"
    /\ LET a == positions_to_close[1]
           k == get_position(positions, a.ticker)
       IN
       IF k = 0
       THEN UNCHANGED <<cash, positions, trades>>
       ELSE /\ cash' = cash + CloseCredit(positions[k], a.price)
            /\ positions' = RemoveAt(positions, k)
            /\ trades' = Append(trades, MakeTrade(positions[k], day, a.price, a.reason))
    /\ positions_to_close' = <<>>
    /\ pc' = "portfolio"
    /\ UNCHANGED <<callerVars, i, pending_entries, raised>>

PortfolioNext == PortfolioCall \/ open_position \/ close_position

PortfolioSpec == PortfolioInit /\ [][PortfolioNext]_vars


\* ------------------------------------------------ the strategies by themselves
\* check_exit_signal of the four strategies as functions of a SignalData row
\* and a position.  The row is frame["A"], its date is day, the position is
\* positions[1]; the value returned goes to positions_to_close together with
\* the name of the strategy that returned it.
SignalData(c, a, e50, sl, m60, r14) ==
    [present |-> TRUE, open |-> c, close |-> c, atr20 |-> a, high10 |-> None,
     high20 |-> None, ema50 |-> e50, ema50_slope |-> sl, ma60 |-> m60, rsi14 |-> r14,
     ma20 |-> None, ma120 |-> None, ema20 |-> None, ema120 |-> None]

\* Closes at, above and below the stops 8 and 10, under a highest close of 12
\* or 16; ATR20 missing, zero or 2; the averages missing or above the close;
\* the slope missing, collapsing or rising; RSI missing or overbought.
ExitRows ==
    { SignalData(c, a, e, sl, e, r) :
        c \in {8, 10, 12}, a \in {None, 0, 2}, e \in {None, 14},
        sl \in {None, -5, 1}, r \in {None, 80} }

\* Rows for the entry signals: a close above or below a 20-day high of 11 or
\* without one; ATR20 missing, within 15% of the close or above it; the slope
\* missing, below -0.2, at -0.2, at 0 or rising; the short average missing,
\* below the close or above it, over longer averages that are present and
\* aligned or missing.  The EMAs take the values of the SMAs.
EntryRows ==
    { [SignalData(c, a, m60, sl, m60, None) EXCEPT
          !.high20 = h, !.ma20 = m20, !.ema20 = m20, !.ma120 = m120, !.ema120 = m120] :
        c \in {10, 12}, a \in {None, 1, 2}, h \in {None, 11},
        sl \in {None, -5, EMA_SLOPE_ENTRY_THRESHOLD, 0, 1},
        m20 \in {None, 9, 13}, m60 \in {None, 8}, m120 \in {None, 7} }

\* SmaBreakoutStrategy.check_entry_signal
sma_check_entry_signal(f) ==
    /\ Truthy(f.ma20) /\ Truthy(f.ma60) /\ Truthy(f.ma120) /\ Truthy(f.high20)
    /\ f.ma20 > f.ma60 /\ f.ma60 > f.ma120
    /\ f.close > f.high20

\* EmaBreakoutStrategy.check_entry_signal
ema_check_entry_signal(f) ==
    /\ Truthy(f.ema20) /\ Truthy(f.ema50) /\ Truthy(f.ema120) /\ Truthy(f.high20)
    /\ f.ema20 > f.ema50 /\ f.ema50 > f.ema120
    /\ f.close > f.high20

\* SmaBreakoutStrategy.check_exit_signal
sma_check_exit_signal(f, highest_close, initial_stop) ==
    IF f.close <= initial_stop THEN "STOP_LOSS"
    ELSE IF Truthy(f.atr20)
            /\ f.close <= highest_close - f.atr20 * SMA_ATR_TRAILING_MULTIPLIER
         THEN "TRAILING_STOP"
    ELSE IF Truthy(f.ma60) /\ f.close < f.ma60 THEN "MA_EXIT"
    ELSE ""

\* EmaBreakoutStrategy.check_exit_signal
ema_check_exit_signal(f, highest_close, initial_stop) ==
    IF f.close <= initial_stop THEN "STOP_LOSS"
    ELSE IF Truthy(f.atr20)
            /\ f.close <= highest_close - f.atr20 * EMA_ATR_TRAILING_MULTIPLIER
         THEN "TRAILING_STOP"
    ELSE IF Truthy(f.ema50) /\ f.close < f.ema50 THEN "EMA_EXIT"
    ELSE ""

\* RsiSwingStrategy._calculate_days_held: the calendar days between the dates.
_calculate_days_held(entry_date, current_date) == current_date - entry_date

\* RsiSwingStrategy.check_exit_signal
rsi_check_exit_signal(f, entry_date, current_date, initial_stop) ==
    IF f.close <= initial_stop THEN "STOP_LOSS"
    ELSE IF _calculate_days_held(entry_date, current_date) >= MAX_HOLDING_DAYS
         THEN "TIME_EXIT"
    ELSE IF Truthy(f.rsi14) /\ f.rsi14 > RSI_EXIT_THRESHOLD THEN "RSI_TARGET"
    ELSE ""

StrategyInit ==
    /\ cfg \in { c \in Configs : c.risk_per_trade = DEFAULT_RISK_PCT }
    /\ save_to_db = FALSE
    /\ tickers = <<"A">>
    /\ pc = "strategy" /\ i = 0
    /\ day \in {4, 11}
    /\ frame \in [{"A"} -> ExitRows \cup EntryRows]
    /\ is_market_ok = FALSE
    /\ prices = EmptyMap
    /\ cash = cfg.initial_capital - 12 * 10
    /\ \E hc \in {12, 16}, stop \in {8, 10} :
         positions = <<[NewPosition("A", 1, 12, 10, stop, 2) EXCEPT !.highest_close = hc]>>
    /\ trades = <<>> /\ daily_records = <<>>
    /\ state = update_peak_equity(InitRiskState, cfg.initial_capital)
    /\ pending_entries = <<>>
    /\ stopped_out_today = {}
    /\ last_exit_info = EmptyMap
    /\ recent_trade_results = <<>>
    /\ kill_switch_active = FALSE
    /\ kill_switch_activated_date = None
    /\ positions_to_close = <<>>
    /\ session_id = None
    /\ sink = <<>>
    /\ raised = 0
    /\ KernelIdle

Returned(name, reason) ==
    /\ positions_to_close' = <<[ticker |-> "A", price |-> frame["A"].close,
                                reason |-> reason, strategy |-> name]>>
    /\ pc' = "checked"
    /\ UNCHANGED <<runVars, day, i, frame, is_market_ok, prices, portfolioVars, state,
                   pending_entries, stopped_out_today, last_exit_info, killVars,
                   session_id, sink, raised>>

TrendExit ==
    /\ pc = "strategy"
    /\ Returned("trend_following",
                check_exit_signal(frame["A"], positions[1].highest_close,
                                  positions[1].initial_stop))

SmaExit ==
    /\ pc = "strategy"
    /\ Returned("sma_breakout",
                sma_check_exit_signal(frame["A"], positions[1].highest_close,
                                      positions[1].initial_stop))

EmaExit ==
    /\ pc = "strategy"
    /\ Returned("ema_breakout",
                ema_check_exit_signal(frame["A"], positions[1].highest_close,
                                      positions[1].initial_stop))

RsiExit ==
    /\ pc = "strategy"
    /\ Returned("rsi_swing",
                rsi_check_exit_signal(frame["A"], positions[1].entry_date, day,
                                      positions[1].initial_stop))

\* The value of check_entry_signal, with the name of the strategy, as the
\* entry scan receives it.
Signalled(name, signal) ==
    /\ pending_entries' = <<[ticker |-> "A", strategy |-> name, signal |-> signal]>>
    /\ pc' = "scanned"
    /\ UNCHANGED <<runVars, day, i, frame, is_market_ok, prices, portfolioVars, state,
                   stopped_out_today, last_exit_info, killVars, positions_to_close,
                   session_id, sink, raised>>

TrendEntry ==
    /\ pc = "strategy"
    /\ Signalled("trend_following", check_entry_signal(frame["A"]))

SmaEntry ==
    /\ pc = "strategy"
    /\ Signalled("sma_breakout", sma_check_entry_signal(frame["A"]))

EmaEntry ==
    /\ pc = "strategy"
    /\ Signalled("ema_breakout", ema_check_entry_signal(frame["A"]))

StrategyNext ==
    \/ TrendExit \/ SmaExit \/ EmaExit \/ RsiExit
    \/ TrendEntry \/ SmaEntry \/ EmaEntry

StrategySpec == StrategyInit /\ [][StrategyNext]_vars


\* ------------------------------------------- the IndicatorCalculator by itself
\* calculate_period_high on close series of up to MaxLen closes drawn from
\* three values, and on the series of the repository's test with its first
\* six closes, for the periods 1 to 5.  NaN is the missing value.
NaN == None
TestCloses == <<100, 102, 101, 103, 105, 104, 106, 108, 107, 110>>
CloseValues == {100, 102, 105}
CloseSeries ==
    UNION { [1..n -> CloseValues] : n \in 0..MaxLen }
        \cup {TestCloses, SubSeq(TestCloses, 1, 6)}
Periods == 1..5

RECURSIVE np_max(_)
np_max(s) == IF Len(s) = 1 THEN s[1] ELSE Max(s[1], np_max(Tail(s)))

\* The lowest close of the window in place of the highest.
calculate_period_low(c, p) ==
    [k \in 1..Len(c) |->
        IF k - 1 >= p
        THEN CHOOSE v \in { c[j] : j \in (k - p)..(k - 1) } :
                 \A j \in (k - p)..(k - 1) : v <= c[j]
        ELSE NaN]

\* result[i] = np.max(close_prices[i - period : i]) for i in range(period, n);
\* the index k here is i + 1.
calculate_period_high_with_today(c, p) ==
    [k \in 1..Len(c) |-> IF k - 1 >= p THEN np_max(SubSeq(c, k - p + 1, k)) ELSE NaN]

calculate_period_high(c, p) ==
    [k \in 1..Len(c) |-> IF k - 1 >= p THEN np_max(SubSeq(c, k - p, k - 1)) ELSE NaN]

RECURSIVE np_sum(_)
np_sum(s) == IF s = <<>> THEN 0 ELSE s[1] + np_sum(Tail(s))

\* talib.SMA(close_prices, timeperiod=period): the mean of the trailing
\* period closes, today's included, NaN on the first period - 1 days.  The
\* mean is kept as its numerator: the value here is SMA * period.
calculate_sma(c, p) ==
    [k \in 1..Len(c) |-> IF k >= p THEN np_sum(SubSeq(c, k - p + 1, k)) ELSE NaN]

KernelInit ==
    /\ cfg \in { c \in Configs : c.risk_per_trade = DEFAULT_RISK_PCT }
    /\ save_to_db = FALSE
    /\ tickers = Universe
    /\ pc = "kernel" /\ day = 0 /\ i = 0
    /\ frame = NoFrame
    /\ is_market_ok = FALSE
    /\ prices = EmptyMap
    /\ cash = cfg.initial_capital
    /\ positions = <<>> /\ trades = <<>> /\ daily_records = <<>>
    /\ state = update_peak_equity(InitRiskState, cfg.initial_capital)
    /\ pending_entries = <<>>
    /\ stopped_out_today = {}
    /\ last_exit_info = EmptyMap
    /\ recent_trade_results = <<>>
    /\ kill_switch_active = FALSE
    /\ kill_switch_activated_date = None
    /\ positions_to_close = <<>>
    /\ session_id = None
    /\ sink = <<>>
    /\ raised = 0
    /\ close_prices \in CloseSeries
    /\ period \in Periods
    /\ period_high = <<>>
    /\ sma = <<>>

PeriodHigh ==
    /\ pc = "kernel"
    /\ period_high' = calculate_period_high(close_prices, period)
    /\ pc' = "computed"
    /\ UNCHANGED <<cfg, save_to_db, tickers, close_prices, period, sma, day, i, frame,
                   is_market_ok, prices, portfolioVars, state, pending_entries,
                   stopped_out_today, last_exit_info, killVars, positions_to_close,
                   session_id, sink, raised>>

\* calculate_all_indicators_for_ticker computes the SMA of the same closes
\* before the period high.  TA-Lib takes periods from 2.
Sma ==
    /\ pc = "kernel"
    /\ period >= 2
    /\ sma = <<>>
    /\ close_prices # <<>>
    /\ sma' = calculate_sma(close_prices, period)
    /\ UNCHANGED <<cfg, save_to_db, tickers, close_prices, period, period_high, pc,
                   day, i, frame, is_market_ok, prices, portfolioVars, state,
                   pending_entries, stopped_out_today, last_exit_info, killVars,
                   positions_to_close, session_id, sink, raised>>

KernelNext == PeriodHigh \/ Sma

KernelSpec == KernelInit /\ [][KernelNext]_vars


\* ------------------------------------------------------------------- claims
LastOf(s) == s[Len(s)]

\* The ticker a position key belongs to: the key itself, or the ticker whose
\* add-on key it is.
Underlying(k) ==
    IF \E t \in Range(tickers) : PyramidKey(t) = k
    THEN CHOOSE t \in Range(tickers) : PyramidKey(t) = k
    ELSE k

\* The days of the loop that are over.
DaysDone ==
    IF pc = "start" THEN 0
    ELSE IF pc \in {"force", "result", "done"} THEN NumDays
    ELSE IF pc = "aborted" THEN (IF day = 0 THEN 0 ELSE NumDays)
    ELSE day - 1

\* C1: daily_records holds exactly one DailyRecord per trading day that is
\* over, in trading-day order, also when a step of a day raised; after run
\* it holds one per day of trading_days(start, end).
C1_DailyRecordsDense ==
    /\ Len(daily_records) = DaysDone
    /\ \A k \in DOMAIN daily_records : daily_records[k].date = k

\* A finished run in which a step of some day raised.
C1_Witness ==
    /\ pc = "done" /\ raised >= 1
    /\ Len(daily_records) = NumDays

\* C2: within a day the steps run in the fixed order reset and market filter,
\* pending fills, exits, entry scan, pyramid scan, price collection, record,
\* and days follow the trading-day order.  Fills happen only in the pending
\* step, exits only in the exit step, enqueues only in the entry scan,
\* add-ons only in the pyramid scan; the exit scan of a day covers the
\* positions filled that day, the entry scan does not admit a ticker exited
\* that day, and the DailyRecord of d is appended last.
StepOrder ==
    { <<"start", "day">>, <<"start", "aborted">>,
      <<"day", "pending">>, <<"day", "record">>,
      <<"pending", "exits">>, <<"pending", "record">>,
      <<"exits", "close">>, <<"exits", "record">>,
      <<"close", "entries">>, <<"close", "prices">>, <<"close", "record">>,
      <<"entries", "scan">>, <<"entries", "pyramid">>, <<"entries", "record">>,
      <<"scan", "pyramid">>, <<"scan", "record">>,
      <<"pyramid", "prices">>,
      <<"prices", "record">>,
      <<"record", "day">>, <<"record", "force">>,
      <<"force", "result">>, <<"force", "aborted">>,
      <<"result", "done">> }

C2_Step ==
    /\ pc' # pc => <<pc, pc'>> \in StepOrder
    /\ day' # day => /\ day' = day + 1
                     /\ pc \in {"start", "record"}
    /\ (pc = "record" /\ pc' = "day") => day' = day + 1
    /\ pc = "day" => stopped_out_today' = {}
    /\ is_market_ok' # is_market_ok => pc = "day"
    /\ Len(positions') > Len(positions) =>
         /\ pc \in {"pending", "pyramid"}
         /\ LastOf(positions').entry_date = day
         /\ (LastOf(positions').ticker \in Range(tickers)) = (pc = "pending")
    /\ Len(trades') > Len(trades) =>
         /\ pc \in {"close", "force"}
         /\ LastOf(trades').exit_date = day
    /\ Len(pending_entries') > Len(pending_entries) =>
         /\ pc = "scan"
         /\ LastOf(pending_entries').signal_date = day
    /\ daily_records' # daily_records =>
         /\ pc = "record"
         /\ daily_records' = Append(daily_records, LastOf(daily_records'))
         /\ LastOf(daily_records').date = day
         /\ UNCHANGED <<cash, positions, trades, pending_entries>>
    /\ (pc = "exits" /\ pc' = "close") =>
         \A k \in DOMAIN positions' :
            LET p == positions'[k] IN
            (p.entry_date = day /\ p.ticker \in Range(tickers) /\ Data(p.ticker).present) =>
               /\ p.highest_close >= Data(p.ticker).close
               /\ check_exit_signal(Data(p.ticker), p.highest_close, p.initial_stop) # ""
                    => \E j \in DOMAIN positions_to_close' :
                          positions_to_close'[j].ticker = p.ticker
    /\ pc = "scan" =>
         \A k \in DOMAIN trades :
            trades[k].exit_date = day =>
               /\ ~has_position(positions, trades[k].ticker)
               /\ ~EntryAdmitted(trades[k].ticker)

C3_FillStep ==
    (pc = "pending" /\ Len(positions') > Len(positions)) =>
        LET pe == pending_entries[i]
            p == LastOf(positions')
        IN /\ p.ticker = pe.ticker
           /\ p.entry_date = pe.signal_date + 1
           /\ p.entry_price = Data(pe.ticker).open
           /\ p.initial_stop = calculate_stop_loss(Data(pe.ticker).open, pe.atr)

C3_FilledNextDayAtOpen == [][C3_FillStep]_vars

\* C4: every PendingEntry leaves the queue in the pending-entry processing
\* of the first day after its signal day, so the queue holds only entries of
\* today's scan once that processing is over, and is empty right after it.
C4_PendingConsumedNextDay ==
    /\ \A k \in DOMAIN pending_entries :
          \/ pending_entries[k].signal_date = day
          \/ /\ pending_entries[k].signal_date = day - 1
             /\ pc \in {"day", "pending"}
    /\ pc \in {"exits", "close", "entries"} => pending_entries = <<>>

\* C5: cash is never negative, and a position is opened only when
\* shares x entry_price is at most the cash at that moment.
C5_Step ==
    /\ cash >= 0 /\ cash' >= 0
    /\ Len(positions') > Len(positions) =>
         /\ Cost(LastOf(positions')) <= cash
         /\ cash' = cash - Cost(LastOf(positions'))

C5_CashNeverNegative == [][C5_Step]_vars

\* A base position and an add-on are open and the cash left buys no share.
C5_Witness ==
    /\ \E k \in DOMAIN positions : positions[k].ticker \in Range(tickers)
    /\ \E k \in DOMAIN positions : positions[k].ticker \notin Range(tickers)
    /\ cash < 12

\* C6: right after any opening (pending fill or add-on) the total risk of
\* the open positions is at most max_portfolio_risk x equity.
C6_OpenStep ==
    Len(positions') > Len(positions) =>
        total_risk(positions') * BP <= cfg.max_portfolio_risk * equity(cash', positions')

C6_RiskCapAfterOpening == [][C6_OpenStep]_vars

\* C7: no two open positions have the same ticker key.
C7_UniqueKeys ==
    \A a, b \in DOMAIN positions :
        a # b => positions[a].ticker # positions[b].ticker

\* C8: when the exits of a day are through, every open position whose
\* underlying ticker has a candle has highest_close at least today's close
\* and no exit reason left: it was updated, checked and, on a reason, closed.
C8_ExitsCoverEveryPosition ==
    (pc = "close" /\ i > Len(positions_to_close)) =>
        \A k \in DOMAIN positions :
            LET p == positions[k]
                f == Data(Underlying(p.ticker))
            IN f.present =>
                 /\ p.highest_close >= f.close
                 /\ check_exit_signal(f, p.highest_close, p.initial_stop) = ""

\* C9: the result has no open position, and every FORCE_EXIT trade is dated
\* the last trading day, priced at that day's close of its ticker and
\* written to the sink.
C9_ForceCloseAtLastClose ==
    pc = "done" =>
        /\ positions = <<>>
        /\ \A k \in DOMAIN trades :
              trades[k].exit_reason = "FORCE_EXIT" =>
                 /\ trades[k].exit_date = NumDays
                 /\ Data(Underlying(trades[k].ticker)).present =>
                       trades[k].exit_price = Data(Underlying(trades[k].ticker)).close
                 /\ \E j \in DOMAIN sink : sink[j] = SellRow(trades[k])

\* C10: an on_trade_exit call in normal mode switches to reduced mode exactly
\* when, this exit counted, consecutive_losses >= 3 or the drawdown is
\* >= 7%; entering sets reduced_trades_remaining = 3 and zeroes the two
\* recovery counters; no other step changes the mode.
OnTradeExitCalled ==
    pc = "close" /\ pc' = "close" /\ Len(trades') = Len(trades) + 1

C10_Step ==
    /\ (OnTradeExitCalled /\ ~state.is_reduced) =>
         LET counted == IF LastOf(trades').exit_reason = "STOP_LOSS"
                        THEN state.consecutive_losses + 1 ELSE 0
             dd == 100 * (state.peak_equity - equity(cash', positions'))
                      >= DRAWDOWN_TRIGGER * state.peak_equity
         IN /\ state'.is_reduced = (counted >= CONSECUTIVE_LOSS_TRIGGER \/ dd)
            /\ state'.consecutive_losses = counted
            /\ state'.is_reduced =>
                 /\ state'.reduced_trades_remaining = REDUCED_TRADES_COUNT
                 /\ state'.winning_exits_since_reduction = 0
                 /\ state'.r_gained_since_reduction = 0
    /\ ~OnTradeExitCalled => state'.is_reduced = state.is_reduced

C10_ReductionTrigger == [][C10_Step]_vars

\* Reduced mode entered on the third consecutive stop-loss exit, with a
\* drawdown under 7%.
C10_Witness ==
    /\ state.is_reduced
    /\ state.consecutive_losses = CONSECUTIVE_LOSS_TRIGGER
    /\ state.reduced_trades_remaining = REDUCED_TRADES_COUNT
    /\ 100 * (state.peak_equity - equity(cash, positions)) < DRAWDOWN_TRIGGER * state.peak_equity

\* C11: in reduced mode an exit is counted (budget minus one, the exit's
\* r-multiple added, a non-stop exit counted as winning) and the manager is
\* back in normal mode exactly when the r-multiples gained since the
\* reduction reach +2R, or two winning exits were counted, or the budget is
\* used up; it then has consecutive_losses = 0.  A first exit at +3R after
\* the reduction leaves reduced mode at once.
C11_Step ==
    (pc = "risk" /\ state.is_reduced /\ state' # state
       /\ state'.peak_equity = state.peak_equity) =>
    LET r1 == state'.r_gained_since_reduction
        w1 == state'.winning_exits_since_reduction
        b1 == state'.reduced_trades_remaining
    IN
    /\ b1 = state.reduced_trades_remaining - 1
    /\ w1 \in {state.winning_exits_since_reduction,
               state.winning_exits_since_reduction + 1}
    /\ r1 - state.r_gained_since_reduction \in RMultiples
    /\ (~state'.is_reduced) <=>
         (r1 >= 2 * RDen \/ w1 >= 2 \/ b1 <= 0)
    /\ (~state'.is_reduced) => state'.consecutive_losses = 0
    /\ state'.is_reduced => state'.consecutive_losses \in
         {0, state.consecutive_losses, state.consecutive_losses + 1}
    /\ (state.r_gained_since_reduction = 0
          /\ r1 >= 3 * RDen) => ~state'.is_reduced

SizedShares(pct, entry, stop) ==
    Min((equity(cash, positions) * pct) \div (BP * (entry - stop)), cash \div entry)

\* A step of _process_exits that closes a position.
ClosesTrade == pc = "close" /\ Len(trades') > Len(trades)

\* C12: a position filled while the manager is in reduced mode is sized at
\* the reduced risk of 0.5%, and the budget of three reduced trades is not
\* used up by the exit of a position opened before the reduction: when the
\* preceding exit of the same day switched to reduced mode, the exit of
\* another position held that day leaves the budget whole.
C12_Step ==
    /\ (pc = "pending" /\ Len(positions') > Len(positions) /\ state.is_reduced) =>
         LET p == LastOf(positions') IN
         p.shares = SizedShares(REDUCED_RISK_PCT, p.entry_price, p.initial_stop)
    /\ (ClosesTrade /\ Len(trades) > 0 /\ LastOf(trades).exit_date = day
          /\ state.is_reduced
          /\ state.reduced_trades_remaining = REDUCED_TRADES_COUNT
          /\ state.winning_exits_since_reduction = 0
          /\ LastOf(trades').entry_date <= day) =>
         state'.reduced_trades_remaining = REDUCED_TRADES_COUNT

C12_ReducedBudgetForNewTrades == [][C12_Step]_vars

\* C13: every trade closed by _process_exits enters the window of the last
\* 10 results as a loss when its pnl is <= 0, and the kill-switch becomes
\* active exactly at the exit after which the window holds 10 results with
\* at least 8 losses, with the day of that exit as activation date.
C13_Step ==
    /\ ClosesTrade =>
         LET a == Append(recent_trade_results, LastOf(trades').pnl > 0)
             w == IF Len(a) > 10 THEN SubSeq(a, Len(a) - 9, Len(a)) ELSE a
             losses == Len(SelectSeq(w, LAMBDA b : ~b))
         IN
         /\ recent_trade_results' = w
         /\ (~kill_switch_active) =>
              (kill_switch_active' <=> (Len(w) >= 10 /\ losses >= 8))
         /\ (~kill_switch_active /\ kill_switch_active') =>
              kill_switch_activated_date' = day
    /\ (~kill_switch_active /\ kill_switch_active') => ClosesTrade

C13_KillSwitchArmsOnEighthLoss == [][C13_Step]_vars

\* C14: no entry is enqueued while the kill-switch is active, and a
\* kill-switch armed on day A is released no earlier than the day after the
\* 20 trading days that follow A, the window being cleared at the release.
C14_Step ==
    /\ Len(pending_entries') > Len(pending_entries) => ~kill_switch_active
    /\ (kill_switch_active /\ ~kill_switch_active') =>
         /\ day - kill_switch_activated_date > 20
         /\ recent_trade_results' = <<>>

C14_NoEntryForTwentyDays == [][C14_Step]_vars

\* C15: no position, pending fill or add-on, is opened while the
\* kill-switch is active.
C15_Step == Len(positions') > Len(positions) => ~kill_switch_active

C15_NoOpeningWhileKillSwitch == [][C15_Step]_vars

\* C16: an entry is enqueued for a ticker whose position _process_exits has
\* closed before only if the last such exit was a TRAILING_STOP and at
\* least the re-entry cooldown of 3 trading days lies between that exit and
\* the day of the signal.
C16_Step ==
    Len(pending_entries') > Len(pending_entries) =>
        LET t == LastOf(pending_entries').ticker
            exits == { k \in DOMAIN trades :
                         trades[k].ticker = t /\ trades[k].exit_reason # "FORCE_EXIT" }
        IN exits # {} =>
             LET k == CHOOSE j \in exits : \A m \in exits : m <= j IN
             /\ trades[k].exit_reason = "TRAILING_STOP"
             /\ day - trades[k].exit_date >= 3

C16_ReentryRule == [][C16_Step]_vars

\* C17: on a day whose market filter passes, with the kill-switch inactive
\* and the drawdown under 15%, the scan reaches every ticker, and enqueues
\* T exactly when T has no open position, is not pending, is not in
\* stopped_out_today, is admitted by the re-entry rule, has a candle with
\* an ATR20 and check_entry_signal is true; nothing is enqueued otherwise.
\* The entry carries the day's close and ATR20, and no ticker is queued twice.
C17_Admits(t) ==
    /\ \A k \in DOMAIN positions : positions[k].ticker # t
    /\ \A k \in DOMAIN pending_entries : pending_entries[k].ticker # t
    /\ t \notin stopped_out_today
    /\ t \in DOMAIN last_exit_info =>
         /\ last_exit_info[t].exit_reason = "TRAILING_STOP"
         /\ day - last_exit_info[t].exit_date >= 3
    /\ t \in DOMAIN frame /\ frame[t].present /\ Truthy(frame[t].atr20)
    /\ check_entry_signal(frame[t])

C17_Step ==
    /\ pc \in {"pending", "exits", "close", "entries", "scan"} => pc' # "record"
    /\ (pc = "close" /\ pc' # "close") => (pc' = "entries" <=> is_market_ok)
    /\ pc = "entries" =>
         (pc' = "scan" <=>
            /\ ~kill_switch_active'
            /\ 100 * (state.peak_equity - equity(cash, positions))
                 < 15 * state.peak_equity)
    /\ (pc = "scan" /\ i <= Len(tickers)) =>
         IF C17_Admits(tickers[i])
         THEN pending_entries' =
                Append(pending_entries,
                       [ticker |-> tickers[i], signal_date |-> day,
                        signal_close |-> frame[tickers[i]].close,
                        atr |-> frame[tickers[i]].atr20])
         ELSE pending_entries' = pending_entries
    /\ Len(pending_entries') > Len(pending_entries) => pc = "scan"
    /\ \A j, k \in DOMAIN pending_entries' :
         pending_entries'[j].ticker = pending_entries'[k].ticker => j = k

C17_EnqueuedIffAllGatesPass == [][C17_Step]_vars

\* C18: a position opened from a pending entry has
\* min(floor(equity x risk% / (entry - stop)), floor(cash / entry)) shares,
\* equity and cash taken at the fill, the risk 0.5% in reduced mode and the
\* base risk otherwise; the sizer gives 0 when entry <= stop, and a pending
\* entry sized at 0 shares opens nothing.
C18_Risk == IF state.is_reduced THEN 50 ELSE cfg.risk_per_trade

C18_Step ==
    /\ (pc = "pending" /\ Len(positions') > Len(positions)) =>
         LET p == LastOf(positions') IN
         /\ p.shares = SizedShares(C18_Risk, p.entry_price, p.initial_stop)
         /\ p.shares > 0
    /\ \A e \in 1..4 : \A st \in e..5 :
         calculate_position_size(state, cfg.risk_per_trade,
                                 equity(cash, positions), e, st) = 0
    /\ (pc = "pending" /\ i <= Len(pending_entries)) =>
         LET pe == pending_entries[i]
             f == IF pe.ticker \in DOMAIN frame THEN frame[pe.ticker] ELSE NoCandle
         IN (f.present /\ SizedShares(C18_Risk, f.open, f.open - 2 * pe.atr) <= 0)
              => positions' = positions

C18_FillSize == [][C18_Step]_vars

\* A pending entry has just been filled in reduced mode, on an equity that
\* the risk width does not divide.
C18_Witness ==
    /\ pc = "pending" /\ i > 1
    /\ state.is_reduced
    /\ \E k \in DOMAIN positions :
         /\ positions[k].entry_date = day
         /\ (equity(cash, positions) * 50)
              % (BP * (positions[k].entry_price - positions[k].initial_stop)) # 0

\* C19: the equity of the day's DailyRecord is the cash at the end of the
\* day plus, over the open positions, shares x the day's close of the
\* position's ticker when the candle store has a candle for it that day,
\* shares x entry price otherwise; for add-ons too, and on days on which a
\* step raised an exception.
RECURSIVE C19_Marked(_)
C19_Marked(ps) ==
    IF ps = <<>> THEN 0
    ELSE LET p == Head(ps)
             t == Underlying(p.ticker)
             f == IF t \in DOMAIN frame THEN frame[t] ELSE NoCandle
         IN (IF f.present THEN f.close ELSE p.entry_price) * p.shares
              + C19_Marked(Tail(ps))

C19_Step ==
    Len(daily_records') > Len(daily_records) =>
        /\ LastOf(daily_records').date = day
        /\ LastOf(daily_records').cash = cash
        /\ LastOf(daily_records').equity = cash + C19_Marked(positions)

C19_RecordEquity == [][C19_Step]_vars

\* C20: a position is opened with highest_close = entry_price; its
\* highest_close never decreases and changes only to a higher close of the
\* day; at the end of every day on which it is held and its ticker has a
\* candle, highest_close is at least that day's close.
C20_Same(p, q) ==
    /\ p.ticker = q.ticker /\ p.entry_date = q.entry_date
    /\ p.entry_price = q.entry_price /\ p.shares = q.shares

C20_Close(p) ==
    LET t == Underlying(p.ticker) IN
    IF t \in DOMAIN frame /\ frame[t].present THEN frame[t].close ELSE None

C20_Step ==
    /\ Len(positions') > Len(positions) =>
         LastOf(positions').highest_close = LastOf(positions').entry_price
    /\ \A k \in DOMAIN positions : \A j \in DOMAIN positions' :
         (C20_Same(positions[k], positions'[j])
            /\ Len(positions') <= Len(positions)
            /\ positions'[j].highest_close # positions[k].highest_close) =>
           /\ positions'[j].highest_close > positions[k].highest_close
           /\ positions'[j].highest_close = C20_Close(positions[k])
    /\ Len(daily_records') > Len(daily_records) =>
         \A k \in DOMAIN positions :
           C20_Close(positions[k]) # None =>
             positions[k].highest_close >= C20_Close(positions[k])

C20_HighestClose == [][C20_Step]_vars

\* C21: every step that closes a position, by an exit of the day or by the
\* forced exit at the end of the run, removes exactly one position, appends
\* exactly one Trade carrying that position's ticker, entry and shares with
\* pnl = (exit_price - entry_price) * shares and
\* r_multiple = (exit_price - entry_price) / (entry_price - initial_stop),
\* and credits exit_price * shares to the cash.
C21_Step ==
    Len(trades') > Len(trades) =>
      \E k \in DOMAIN positions :
        LET p == positions[k]
            t == LastOf(trades')
        IN
        /\ trades' = Append(trades, t)
        /\ positions' = RemoveAt(positions, k)
        /\ t.ticker = p.ticker
        /\ t.entry_date = p.entry_date
        /\ t.entry_price = p.entry_price
        /\ t.shares = p.shares
        /\ t.exit_date = day
        /\ (t.exit_reason = "FORCE_EXIT") <=> (pc = "force")
        /\ t.pnl = (t.exit_price - t.entry_price) * t.shares
        /\ t.r_multiple * (p.entry_price - p.initial_stop) =
             (t.exit_price - t.entry_price) * RDen
        /\ cash' = cash + t.exit_price * t.shares

C21_TradeAccounting == [][C21_Step]_vars

\* A run that has closed one position by an exit of the day and another by
\* the forced exit, both away from their entry price and in several shares.
C21_Witness ==
    \E a, b \in DOMAIN trades :
        /\ trades[a].exit_reason = "FORCE_EXIT"
        /\ trades[b].exit_reason # "FORCE_EXIT"
        /\ trades[a].pnl # 0 /\ trades[a].shares > 1
        /\ trades[b].pnl # 0 /\ trades[b].shares > 1

\* C22: a failing TradeRepository call (create_session, record_buy,
\* update_highest_close, record_sell) affects only that call: the run is not
\* aborted, the rest of the day is not skipped, and the loop the call was
\* made from goes on with its next element.
SinkCallSteps == {"start", "pending", "exits", "close", "force"}

C22_Step ==
    (raised' > raised /\ pc \in SinkCallSteps) =>
        /\ pc' \notin {"aborted", "record"}
        /\ (pc \in {"pending", "exits", "close"}) => (pc' = pc /\ i' = i + 1)

C22_SinkFailureConfined == [][C22_Step]_vars

\* C23: a close_position call for a ticker that is not held is fatal: it
\* aborts the session instead of returning without effect.
C23_Step ==
    (pc = "close_position"
       /\ ~has_position(positions, positions_to_close[1].ticker)) => pc' = "aborted"

C23_CloseOfMissingPositionIsFatal == [][C23_Step]_vars

\* C24: open_position fails, leaving cash, positions and trades as they
\* were, whenever the cash is below price * shares or the stop is at or
\* above the price; otherwise it appends exactly one position with the
\* arguments of the call and debits price * shares.
C24_Step ==
    pc = "open_position" =>
      LET a == pending_entries[1] IN
      IF cash < a.price * a.shares \/ a.stop_loss >= a.price
      THEN UNCHANGED <<cash, positions, trades>>
      ELSE /\ Len(positions') = Len(positions) + 1
           /\ SubSeq(positions', 1, Len(positions)) = positions
           /\ LastOf(positions').ticker = a.ticker
           /\ LastOf(positions').entry_price = a.price
           /\ LastOf(positions').shares = a.shares
           /\ LastOf(positions').initial_stop = a.stop_loss
           /\ cash' = cash - a.price * a.shares
           /\ UNCHANGED trades

C24_OpenFailsOrAppends == [][C24_Step]_vars

\* C25: every position the engine opens, by the fill of a pending entry or
\* as a pyramid add-on, has its entry price above its initial stop, a
\* positive whole number of shares, and the positive risk amount
\* (entry_price - initial_stop) * shares.  Every ATR20 of the session is
\* positive.
C25_AtrPositive ==
    \A f \in DayFrames(tickers) : (f.present /\ f.atr20 # None) => f.atr20 > 0

C25_Step ==
    (C25_AtrPositive /\ Len(positions') > Len(positions)) =>
      LET p == LastOf(positions') IN
      /\ positions' = Append(positions, p)
      /\ p.entry_price > p.initial_stop
      /\ p.shares \in Nat /\ p.shares > 0
      /\ p.risk_amount = (p.entry_price - p.initial_stop) * p.shares
      /\ p.risk_amount > 0

C25_OpenedPositionsWellFormed == [][C25_Step]_vars

\* A portfolio holding a filled entry of several shares and its add-on.
C25_Witness ==
    \E a, b \in DOMAIN positions :
        /\ positions[b].ticker = PyramidKey(positions[a].ticker)
        /\ positions[a].shares > 1
        /\ positions[b].shares > 1

\* C26: under every strategy a close at or below the initial stop, equality
\* included, gives STOP_LOSS; and when the stop is not hit while both the
\* trailing-stop condition of the strategy (close < highest_close - 2.5 ATR20
\* for the trend strategy, close <= highest_close - 3.0 ATR20 for the SMA and
\* EMA breakouts) and its MA / EMA / EMA-structure exit condition hold, the
\* reason returned is TRAILING_STOP.
C26_Trailing(name, f, p) ==
    /\ f.atr20 # None
    /\ IF name = "trend_following"
       THEN 2 * f.close < 2 * p.highest_close - ATR_TRAILING_MULTIPLIER_X2 * f.atr20
       ELSE IF name = "sma_breakout"
       THEN f.close <= p.highest_close - SMA_ATR_TRAILING_MULTIPLIER * f.atr20
       ELSE IF name = "ema_breakout"
       THEN f.close <= p.highest_close - EMA_ATR_TRAILING_MULTIPLIER * f.atr20
       ELSE FALSE

C26_Secondary(name, f) ==
    IF name = "trend_following"
    THEN /\ f.ema50 # None /\ f.close < f.ema50
         /\ f.ema50_slope # None /\ f.ema50_slope < EMA_SLOPE_EXIT_THRESHOLD
    ELSE IF name = "sma_breakout" THEN f.ma60 # None /\ f.close < f.ma60
    ELSE IF name = "ema_breakout" THEN f.ema50 # None /\ f.close < f.ema50
    ELSE FALSE

C26_ExitPriority ==
    pc = "checked" =>
      LET r == positions_to_close[1]
          f == frame["A"]
          p == positions[1]
      IN
      /\ f.close <= p.initial_stop => r.reason = "STOP_LOSS"
      /\ (f.close > p.initial_stop /\ C26_Trailing(r.strategy, f, p)
            /\ C26_Secondary(r.strategy, f)) => r.reason = "TRAILING_STOP"

\* C27: calculate_period_high(close, p) has, at every index i >= p, the
\* maximum of close[i-p .. i-1], and the missing value at every i < p; the
\* value at i does not depend on any close[j] with j >= i; and for the
\* closes 100, 102, 101, 103, 105, 104 the HIGH(5) at index 5 is 105.
\* Indices i are counted from 0 as in the code, sequences from 1.
C27_IsWindowMax(v, c, idx, p) ==
    /\ \E j \in (idx - p)..(idx - 1) : c[j + 1] = v
    /\ \A j \in (idx - p)..(idx - 1) : c[j + 1] <= v

C27_PeriodHigh ==
    pc = "computed" =>
      /\ Len(period_high) = Len(close_prices)
      /\ \A idx \in 0..(Len(close_prices) - 1) :
           IF idx >= period
           THEN C27_IsWindowMax(period_high[idx + 1], close_prices, idx, period)
           ELSE period_high[idx + 1] = NaN
      /\ \A c2 \in CloseSeries :
           \A idx \in 0..(Min(Len(c2), Len(close_prices)) - 1) :
             SubSeq(c2, 1, idx) = SubSeq(close_prices, 1, idx) =>
               calculate_period_high(c2, period)[idx + 1] = period_high[idx + 1]
      /\ (close_prices = SubSeq(TestCloses, 1, 6) /\ period = 5) =>
           period_high[6] = 105

\* HIGH(5) of the six closes of the test has been computed.
C27_Witness ==
    /\ pc = "computed"
    /\ close_prices = SubSeq(TestCloses, 1, 6)
    /\ period = 5
    /\ period_high = <<NaN, NaN, NaN, NaN, NaN, 105>>

\* C28: every decision of the engine is a function of the stored data and
\* the engine state only, so that two runs on the same data produce the same
\* trades and daily records: in every state of a session under way but the
\* one where the day's rows and the market filter are read, the control
\* point the engine reaches next is determined by the state, i.e. no two
\* steps from the same state lead to different control points.
C28_Labels ==
    {"start", "day", "pending", "exits", "close", "entries", "scan", "pyramid",
     "prices", "record", "force", "result", "done", "aborted"}

C28_DecisionsDetermined ==
    pc \notin {"start", "day"} =>
      \A a \in C28_Labels :
        ENABLED (Next /\ pc' = a) =>
          \A b \in C28_Labels \ {a} : ~ENABLED (Next /\ pc' = b)

\* C29: in every reachable state of a session the cash plus the cost of the
\* open positions equals the initial capital plus the pnl of the closed
\* trades; so in the result, after the forced exits, final_equity = cash =
\* initial_capital + total_pnl, and the total_return_pct computed from
\* total_pnl equals the one computed from final_equity.
C29_Accounting ==
    /\ cash + position_value(positions) = cfg.initial_capital + SumPnl(trades)
    /\ pc \in {"result", "done"} =>
         /\ positions = <<>>
         /\ result.final_equity = cash
         /\ cash = result.initial_capital + result.stats.total_pnl
         /\ result.stats.total_return_pct =
              ((result.final_equity - result.initial_capital) * BP)
                  \div result.initial_capital

\* A finished run with a winning and a losing trade and a net result.
C29_Witness ==
    /\ pc = "done"
    /\ \E a, b \in DOMAIN trades : trades[a].pnl > 0 /\ trades[b].pnl < 0
    /\ result.stats.total_pnl # 0

\* C30: between any two on_trade_exit calls, a reduced RiskState has 1, 2 or
\* 3 reduced trades remaining, at most one winning exit and less than 2R
\* gained since the reduction, and a state that is not reduced has at most 2
\* consecutive losses.  An exit that leaves the state reduced uses up one of
\* the remaining trades, so the reduced mode lasts at most 3 exits in a row;
\* and within any on_trade_exit call that can come next (counters, reduction
\* trigger, recovery) the mode changes at most once.
C30_ModeChanges(st, sl, r, eq) ==
    LET m0 == st.is_reduced
        m1 == _check_reduction_trigger(on_trade_exit_counters(st, sl, r), eq).is_reduced
        m2 == on_trade_exit(st, sl, r, eq).is_reduced
    IN (IF m0 # m1 THEN 1 ELSE 0) + (IF m1 # m2 THEN 1 ELSE 0)

C30_Inv ==
    /\ state.is_reduced =>
         /\ state.reduced_trades_remaining \in 1..REDUCED_TRADES_COUNT
         /\ state.winning_exits_since_reduction <= 1
         /\ state.r_gained_since_reduction < RECOVERY_R_THRESHOLD * RDen
    /\ ~state.is_reduced => state.consecutive_losses <= CONSECUTIVE_LOSS_TRIGGER - 1
    /\ \A sl \in BOOLEAN, r \in RMultiples, eq \in RiskEquities :
         C30_ModeChanges(state, sl, r, eq) <= 1

\* update_peak_equity changes only the peak; any other change of the state
\* is an on_trade_exit call.
C30_Step ==
    (/\ state.is_reduced /\ state'.is_reduced
     /\ [state' EXCEPT !.peak_equity = 0] # [state EXCEPT !.peak_equity = 0]) =>
        state'.reduced_trades_remaining = state.reduced_trades_remaining - 1

C30_RiskStateInvariant == []C30_Inv /\ [][C30_Step]_vars

\* A reduced state two exits into the reduction, one of them a winning exit.
C30_Witness ==
    /\ pc = "risk"
    /\ state.is_reduced
    /\ state.reduced_trades_remaining = 1
    /\ state.winning_exits_since_reduction = 1

\* C31: while in reduced mode an exit advances the count of winning exits
\* since the reduction only if it is a winning exit (r_multiple > 0): an exit
\* at a loss for a reason other than STOP_LOSS does not count.
C31_Step ==
    \A sl \in BOOLEAN, r \in RMultiples, eq \in RiskEquities :
        (/\ state.is_reduced
         /\ state' = on_trade_exit(state, sl, r, eq)
         /\ state'.winning_exits_since_reduction > state.winning_exits_since_reduction)
            => r > 0

C31_OnlyWinningExitsCount == [][C31_Step]_vars

\* C32: the kill-switch window never holds more than 10 results; every result
\* it receives is the result of a trade closed in that step, and it is
\* emptied only when the kill-switch is released, so it never holds more
\* results than trades were closed since the start of the session or the
\* last release; and the kill-switch arms only on a window of 10 results,
\* however many of fewer results are losses.
C32_Inv ==
    /\ Len(recent_trade_results) <= KILL_SWITCH_WINDOW
    /\ Len(recent_trade_results) <= Len(trades)

C32_Step ==
    /\ (~kill_switch_active /\ kill_switch_active') =>
          /\ Len(recent_trade_results') = KILL_SWITCH_WINDOW
          /\ Len(trades') >= KILL_SWITCH_WINDOW
    /\ recent_trade_results' # recent_trade_results =>
          \/ /\ kill_switch_active /\ ~kill_switch_active'
             /\ recent_trade_results' = <<>>
          \/ /\ Len(trades') = Len(trades) + 1
             /\ Len(recent_trade_results') <= Len(recent_trade_results) + 1
             /\ LastOf(recent_trade_results') = (LastOf(trades').pnl > 0)

C32_WindowBounded == []C32_Inv /\ [][C32_Step]_vars

\* The kill-switch armed on one of the modelled days, on a full window.
C32_Witness ==
    /\ kill_switch_active
    /\ kill_switch_activated_date \in 1..NumDays
    /\ Len(recent_trade_results) = KILL_SWITCH_WINDOW
    /\ FailCount(recent_trade_results) >= KILL_SWITCH_FAILS

\* C33: the kill-switch is released, and its window cleared, only at the
\* head of the entry scan of a day on which the market filter passes and at
\* least 20 trading days lie in (activation day, day]; in particular it stays
\* active through every day on which the market filter is false.  And it is
\* released on the first market-ok day with that many days: the entry scan of
\* such a day ends with the kill-switch off and the window empty.
C33_Due ==
    /\ kill_switch_active
    /\ kill_switch_activated_date # None
    /\ _count_trading_days(kill_switch_activated_date, day) >= KILL_SWITCH_COOLDOWN

C33_Step ==
    /\ (kill_switch_active /\ ~kill_switch_active') =>
          /\ pc = "entries" /\ is_market_ok /\ C33_Due
          /\ recent_trade_results' = <<>>
          /\ kill_switch_activated_date' = None
    /\ (recent_trade_results # <<>> /\ recent_trade_results' = <<>>) =>
          (kill_switch_active /\ ~kill_switch_active')
    /\ (pc = "entries" /\ C33_Due) =>
          (~kill_switch_active' /\ recent_trade_results' = <<>>)

C33_ReleaseOnlyAndAlwaysAtEntryScan == [][C33_Step]_vars

\* C34: the equity the engine sizes, gates and triggers on is the cash plus
\* the open positions at their entry cost.  Opening a position and the
\* arrival of new prices leave it unchanged, closing a position changes it
\* by that trade's pnl, and nothing else changes it.  So the drawdown gate
\* blocks the entry scan, and reduced mode starts, on realized results only
\* (the drawdown of initial_capital + closed pnl from the peak; reduced mode
\* only in a step that closes a trade), and peak_equity is the maximum of
\* initial_capital and the values of this quantity at the ends of the days.
C34_Equity == cash + position_value(positions)

C34_Realized == cfg.initial_capital + SumPnl(trades)

C34_Inv ==
    /\ C34_Equity = C34_Realized
    /\ state.peak_equity >= cfg.initial_capital

C34_Step ==
    /\ C34_Equity' = C34_Equity + (SumPnl(trades') - SumPnl(trades))
    /\ Len(trades') = Len(trades) => C34_Equity' = C34_Equity
    /\ Len(trades') > Len(trades) => C34_Equity' = C34_Equity + LastOf(trades').pnl
    /\ (~state.is_reduced /\ state'.is_reduced) => Len(trades') > Len(trades)
    /\ (pc = "entries" /\ pc' = "pyramid" /\ ~kill_switch_active') =>
          100 * (state.peak_equity - C34_Realized) >= DD_ENTRY_BLOCK * state.peak_equity
    /\ state'.peak_equity # state.peak_equity =>
          /\ pc = "record"
          /\ state'.peak_equity = C34_Equity
          /\ C34_Equity > state.peak_equity
    /\ pc = "record" => state'.peak_equity = Max(state.peak_equity, C34_Equity)

C34_EquityAtCost == []C34_Inv /\ [][C34_Step]_vars

\* The end of a day on which a position is held under water, a loss has
\* been realized, and the equity is below its peak but not by the held
\* position's unrealized loss.
C34_Witness ==
    /\ pc = "record"
    /\ \E k \in DOMAIN positions :
         Data(positions[k].ticker).present
           /\ Data(positions[k].ticker).close < positions[k].entry_price
    /\ trades # <<>>
    /\ C34_Equity < state.peak_equity

\* C35: with sink recording enabled and no call having failed, every step
\* that opens a position (the fill of a pending entry or a pyramid add-on)
\* appends to the sink a BUY with that position's ticker key, date, price and
\* shares, and every SELL in the sink is preceded by a BUY with the same
\* ticker key.
C35_Inv ==
    (save_to_db /\ raised = 0) =>
      \A k \in DOMAIN sink :
        sink[k].trade_type = "SELL" =>
          \E j \in 1..(k - 1) :
            sink[j].trade_type = "BUY" /\ sink[j].ticker = sink[k].ticker

C35_Step ==
    (save_to_db /\ raised' = 0 /\ Len(positions') > Len(positions)) =>
      LET p == LastOf(positions') IN
      sink' = Append(sink, BuyRow(p.ticker, p.entry_date, p.entry_price, p.shares))

C35_BuyBeforeSell == []C35_Inv /\ [][C35_Step]_vars

\* C36: the force close at the end of the run changes only the cash, the
\* positions, the trades and the sink: the RiskState, the kill-switch window
\* and activation, last_exit_info, stopped_out_today, the pending queue and
\* the daily records stay as they were.  FORCE_EXIT trades are appended only
\* there, after the last daily record.
C36_Step ==
    /\ pc = "force" =>
         UNCHANGED <<state, recent_trade_results, kill_switch_active,
                     kill_switch_activated_date, last_exit_info, stopped_out_today,
                     pending_entries, daily_records>>
    /\ (Len(trades') > Len(trades) /\ LastOf(trades').exit_reason = "FORCE_EXIT") =>
         (pc = "force" /\ Len(daily_records) = NumDays)

C36_ForceCloseFrame == [][C36_Step]_vars

\* A finished run that force-closed a position at a loss after a stop-loss
\* exit earlier in the run.
C36_Witness ==
    /\ pc = "done"
    /\ state.consecutive_losses > 0
    /\ \E k \in DOMAIN trades :
         trades[k].exit_reason = "FORCE_EXIT" /\ trades[k].pnl # 0

\* C37: the trend strategy's check_entry_signal is true exactly when high20,
\* atr20 and ema50_slope are present, close > high20, ema50_slope >= -0.2
\* (a slope of exactly 0 included) and atr20 / close <= 0.15; it is false
\* when one of the three is missing.
C37_Expected(f) ==
    /\ f.high20 # None /\ f.atr20 # None /\ f.ema50_slope # None
    /\ f.close > f.high20
    /\ f.ema50_slope >= EMA_SLOPE_ENTRY_THRESHOLD
    /\ 100 * f.atr20 <= ATR_OVERHEAT_THRESHOLD * f.close

C37_TrendEntryExact ==
    (pc = "scanned" /\ pending_entries[1].strategy = "trend_following") =>
        (pending_entries[1].signal <=> C37_Expected(frame["A"]))

\* C38: the SMA breakout's check_entry_signal is true only if
\* close > SMA20 > SMA60 > SMA120 and close > ROLLING_HIGH(20), the EMA
\* breakout's only if close > EMA20 > EMA50 > EMA120 and
\* close > ROLLING_HIGH(20): the close is above the shortest average.
C38_BreakoutEntryAboveAverages ==
    LET f == frame["A"] IN
    /\ (pc = "scanned" /\ pending_entries[1].strategy = "sma_breakout"
          /\ pending_entries[1].signal) =>
            /\ f.ma20 # None /\ f.ma60 # None /\ f.ma120 # None /\ f.high20 # None
            /\ f.close > f.ma20 /\ f.ma20 > f.ma60 /\ f.ma60 > f.ma120
            /\ f.close > f.high20
    /\ (pc = "scanned" /\ pending_entries[1].strategy = "ema_breakout"
          /\ pending_entries[1].signal) =>
            /\ f.ema20 # None /\ f.ema50 # None /\ f.ema120 # None /\ f.high20 # None
            /\ f.close > f.ema20 /\ f.ema20 > f.ema50 /\ f.ema50 > f.ema120
            /\ f.close > f.high20

\* C39: a pyramid add-on is opened for an open position only on a day whose
\* market gate passed, with a close-based MFE of at least +1R, a new stop
\* width strictly below the position's, a close above the 10-day or the
\* 20-day high and a total open risk below 2R; the add-on risks at most
\* min(0.5R, 2R - open risk), so the total is at most 2R after the add
\* (1R = equity * risk_per_trade).
C39_Step ==
    (pc = "pyramid" /\ Len(positions') > Len(positions)) =>
        LET p == positions[i]
            f == Data(p.ticker)
            a == positions'[Len(positions')]
            r_unit == p.entry_price - p.initial_stop
            \* 1R, the open risk before and the add-on's risk, times BP
            one_r == equity(cash, positions) * cfg.risk_per_trade
            open == total_risk(positions) * BP
            added == a.risk_amount * BP
        IN
        /\ Len(positions') = Len(positions) + 1
        /\ a.ticker = PyramidKey(p.ticker)
        /\ is_market_ok
        /\ r_unit > 0 /\ f.close - p.entry_price >= r_unit
        /\ f.close - a.initial_stop < r_unit
        /\ \/ f.high10 # None /\ f.close > f.high10
           \/ f.high20 # None /\ f.close > f.high20
        /\ open < 2 * one_r
        /\ 2 * added <= one_r /\ added <= 2 * one_r - open
        /\ total_risk(positions') * BP
              <= 2 * equity(cash', positions') * cfg.risk_per_trade

C39_PyramidAddOnGuarded == [][C39_Step]_vars

C39_Witness ==
    /\ pc = "pyramid"
    /\ i > 1
    /\ Len(positions) >= 2
    /\ positions[Len(positions)].ticker = PyramidKey(positions[i - 1].ticker)
    /\ positions[Len(positions)].entry_date = day

\* C40: for vectors computed from the same closes with a period p >= 2,
\* close[i] > ROLLING_HIGH(p)[i] implies close[i] > SMA(p)[i]; so the SMA
\* breakout's entry, which does not test close > SMA20, never fires with
\* close <= SMA20 on a frame built from such vectors, whatever the longer
\* averages are.  The frame is scaled by p, the SMA being kept as a sum.
C40_Frame(k, m60, m120) ==
    [SignalData(period * close_prices[k], None, None, None, m60, None) EXCEPT
        !.high20 = IF period_high[k] = NaN THEN None ELSE period * period_high[k],
        !.ma20 = sma[k], !.ma120 = m120]

C40_BreakoutAboveSma ==
    (pc = "computed" /\ sma # <<>> /\ period >= 2) =>
        \A k \in DOMAIN close_prices :
          /\ (period_high[k] # NaN /\ close_prices[k] > period_high[k]) =>
                (sma[k] # NaN /\ period * close_prices[k] > sma[k])
          /\ \A m60 \in {None} \cup (0..sma[k]), m120 \in {None, 1} :
                sma_check_entry_signal(C40_Frame(k, m60, m120)) =>
                    C40_Frame(k, m60, m120).close > C40_Frame(k, m60, m120).ma20

\* On the closes of the test, day 7 closes at 106 above the 5-day high of 105.
C40_Witness ==
    /\ pc = "computed"
    /\ close_prices = TestCloses
    /\ period = 5
    /\ sma # <<>>
    /\ close_prices[7] > period_high[7]
    /\ sma_check_entry_signal(C40_Frame(7, 1, None)) = FALSE
    /\ sma_check_entry_signal(C40_Frame(7, 2, 1))

====
